---- MODULE Spec2Model ----
(***************************************************************************)
(* PEPE scalping bot: the live decision pipeline (main.py), the candle     *)
(* stream loop that drives it (websocket.py), the oracle client and its    *)
(* response parsers (grok.py), the layer detector and matcher (layers.py), *)
(* the position sizer and indicators (utils.py), and the batch analysis of *)
(* the backtest (backtest.py).                                             *)
(*                                                                         *)
(* Units.  Time is in whole seconds since the Unix epoch.  Prices are in   *)
(* ticks (integers).  distance_pct is in hundredths of a percent, so the   *)
(* 0.1 % matcher threshold is 10.  Position sizes are in cents.            *)
(***************************************************************************)
EXTENDS Integers, Sequences, FiniteSets, TLC

\* ---------------------------------------------------------------- bounds
\* Candle updates delivered by the stream in one run of the model.
MaxCycles == 2
\* Distance of a long-running snapshot from its daily budgets (Snapshots).
Headroom == 1
\* Layer lists handed to the matcher on its own (SpecNearest): the most
\* layers in the two lists together, and the largest distance_pct.
MaxLayers == 3
MaxDist == 2
\* The most swing points handed to cluster_levels on its own (SpecCluster).
MaxSwings == 4
\* Bars of a series handed to the swing detectors.
MaxBars == 8
\* Setups handed to one backtest run: more than the semaphore admits.
MaxSetups == 12

\* ------------------------------------------------- configuration, main.py
COOLDOWN_SECONDS == 60
MAX_CALLS_PER_DAY == 500
MAX_X_SEARCHES_PER_DAY == 100
MIN_CONFIDENCE == 60
HIGH_CONFIDENCE == 80
\* LAYER_THRESHOLD_PCT = 0.1 (percent), here in hundredths of a percent.
LAYER_THRESHOLD_PCT == 10
\* on_candle returns at once for a window shorter than this.
MIN_CANDLES == 20
ACCOUNT_BALANCE == 1000
LEVERAGE == 10
\* MAX_RISK_PERCENT = 0.2 (percent), here in tenths of a percent.
MAX_RISK_PERCENT == 2

\* ------------------------------------------------------------- the clock
SecondsPerDay == 86400
DaysPerYear == 365
\* Lengths of the months of 1970, the year the model's clock runs in.
MonthLengths == <<31, 28, 31, 30, 31, 30, 31, 31, 30, 31, 30, 31>>

\* The UTC calendar day (days since the epoch) of time t.
EpochDay(t) == t \div SecondsPerDay

RECURSIVE DayInMonth(_, _)
\* Day of the month of the 0-based day of the year doy, scanning from month m.
DayInMonth(doy, m) ==
    IF m >= Len(MonthLengths) \/ doy < MonthLengths[m]
    THEN doy + 1
    ELSE DayInMonth(doy - MonthLengths[m], m + 1)

\* datetime.utcnow().day at time t: the day of the MONTH, 1..31.
UtcDay(t) == DayInMonth(EpochDay(t) % DaysPerYear, 1)

\* The time the model takes the bot up at: 5 January 1970, 12:00:00 UTC.
StartTime == 4 * SecondsPerDay + SecondsPerDay \div 2

\* Seconds between one clock reading of the pipeline and the next (the wait
\* for the candle update, and the 5-second sleep after an exception when
\* there was one): just under the cooldown, exactly the cooldown, one day
\* and one 31-day month.
Elapsed == {COOLDOWN_SECONDS - 1, COOLDOWN_SECONDS, SecondsPerDay,
            31 * SecondsPerDay}

\* ------------------------------------------------ oracle responses, grok.py
(* A response text is a sequence of lines; a line is [label, tok], the     *)
(* text before the first ':' and what follows it.  A token is              *)
(*   [k |-> "word", v |-> <string>]  a word,                               *)
(*   [k |-> "num",  v |-> n, lead |-> d]  a number: float() reads n,       *)
(*                                        the first digit run reads d,     *)
(*   [k |-> "bad",  lead |-> d]  digits and dots float() rejects, such as  *)
(*                               "1.2.3"; the first digit run reads d,     *)
(*   [k |-> "nonum"]             text without a digit or a dot.            *)
Word(w) == [k |-> "word", v |-> w, lead |-> 0]
Num(n) == [k |-> "num", v |-> n, lead |-> n]
BadNum(d) == [k |-> "bad", v |-> 0, lead |-> d]
NoNum == [k |-> "nonum", v |-> 0, lead |-> 0]
Line(l, t) == [label |-> l, tok |-> t]

\* str.upper() on the words the model uses.
Upper(w) ==
    CASE w = "long" -> "LONG"
      [] w = "short" -> "SHORT"
      [] w = "skip" -> "SKIP"
      [] w = "yes" -> "YES"
      [] w = "no" -> "NO"
      [] w = "bullish" -> "BULLISH"
      [] OTHER -> w

\* re.search(r'\d+', s): is there a digit run, and its value.
HasDigits(tok) == tok.k \in {"num", "bad"}
\* re.search(r'[\d.]+', s): is there a run of digits and dots.
HasFloatRun(tok) == tok.k \in {"num", "bad"}
\* float(match.group()) raises ValueError.
FloatRaises(tok) == tok.k = "bad"

Reason(kind, text) == [kind |-> kind, text |-> text]

\* The result dict _parse_technical_response starts from.
TechnicalDefault ==
    [direction |-> "SKIP", confidence |-> 0, tp |-> 0, sl |-> 0,
     reason |-> Reason("default", "Failed to parse response")]

\* One iteration of the line loop of _parse_technical_response:
\* [r |-> the result dict after the line, raised |-> the line raised].
ParseTechnicalLine(line, r) ==
    LET tok == line.tok
        keep == [r |-> r, raised |-> FALSE]
    IN  CASE line.label = "DIRECTION" ->
               IF tok.k = "word" /\ Upper(tok.v) \in {"LONG", "SHORT", "SKIP"}
               THEN [r |-> [r EXCEPT !.direction = Upper(tok.v)], raised |-> FALSE]
               ELSE keep
          [] line.label = "CONFIDENCE" ->
               IF HasDigits(tok)
               THEN [r |-> [r EXCEPT !.confidence = tok.lead], raised |-> FALSE]
               ELSE keep
          [] line.label = "TP" ->
               IF ~HasFloatRun(tok) THEN keep
               ELSE IF FloatRaises(tok) THEN [r |-> r, raised |-> TRUE]
               ELSE [r |-> [r EXCEPT !.tp = tok.v], raised |-> FALSE]
          [] line.label = "SL" ->
               IF ~HasFloatRun(tok) THEN keep
               ELSE IF FloatRaises(tok) THEN [r |-> r, raised |-> TRUE]
               ELSE [r |-> [r EXCEPT !.sl = tok.v], raised |-> FALSE]
          [] line.label = "REASON" ->
               [r |-> [r EXCEPT !.reason =
                           Reason("parsed", IF tok.k = "word" THEN tok.v ELSE "")],
                raised |-> FALSE]
          [] OTHER -> keep

RECURSIVE ParseTechnicalLines(_, _, _)
\* The line loop from line i on; an exception leaves the loop at once.
ParseTechnicalLines(lines, i, r) ==
    IF i > Len(lines) THEN [r |-> r, raised |-> FALSE]
    ELSE LET step == ParseTechnicalLine(lines[i], r)
         IN  IF step.raised THEN step
             ELSE ParseTechnicalLines(lines, i + 1, step.r)

\* "Set default TP/SL based on ATR if not parsed".
DefaultBracket(r, price, atr) ==
    IF r.tp = 0 /\ r.direction # "SKIP"
    THEN IF r.direction = "LONG"
         THEN [r EXCEPT !.tp = price + atr, !.sl = price - atr]
         ELSE [r EXCEPT !.tp = price - atr, !.sl = price + atr]
    ELSE r

\* _parse_technical_response: content None raises at response.strip();
\* every exception inside the try ends the parse with the dict as it is.
ParseTechnicalResponse(response, price, atr) ==
    IF response.kind = "none" THEN TechnicalDefault
    ELSE LET loop == ParseTechnicalLines(response.lines, 1, TechnicalDefault)
         IN  IF loop.raised THEN loop.r
             ELSE DefaultBracket(loop.r, price, atr)

\* The dict analyze_technical returns from its except branch.
TechnicalError(err) ==
    [direction |-> "SKIP", confidence |-> 0, tp |-> 0, sl |-> 0,
     reason |-> Reason("api_error", err)]

\* analyze_technical: the oracle call either raises err or answers.
AnalyzeTechnical(oracle, price, atr) ==
    IF oracle.kind = "raise" THEN TechnicalError(oracle.err)
    ELSE ParseTechnicalResponse(oracle, price, atr)

\* The result dict _parse_sentiment_response starts from.
SentimentDefault ==
    [take_trade |-> FALSE, sentiment |-> "NEUTRAL", buzz_score |-> 0,
     btc_status |-> "FLAT", whale_alert |-> FALSE,
     reason |-> Reason("default", "Failed to parse response")]

\* 'YES' in line.upper(), for the words the model uses.
ContainsYes(tok) == tok.k = "word" /\ Upper(tok.v) \in {"YES", "YES if BTC holds"}
\* any(s in btc for s in ['UP', 'DOWN', 'FLAT']).
MentionsBtc(w) == w \in {"UP", "DOWN", "FLAT", "GOING UP"}
\* btc.split()[0].
FirstWord(w) == IF w = "GOING UP" THEN "GOING" ELSE w

\* One iteration of the line loop of _parse_sentiment_response.
ParseSentimentLine(line, r) ==
    LET tok == line.tok
    IN  CASE line.label = "TAKE_TRADE" -> [r EXCEPT !.take_trade = ContainsYes(tok)]
          [] line.label = "SENTIMENT" ->
               IF tok.k = "word" /\ Upper(tok.v) \in {"BULLISH", "BEARISH", "NEUTRAL"}
               THEN [r EXCEPT !.sentiment = Upper(tok.v)]
               ELSE r
          [] line.label = "BUZZ_SCORE" ->
               IF HasDigits(tok) THEN [r EXCEPT !.buzz_score = tok.lead] ELSE r
          [] line.label = "BTC_STATUS" ->
               IF tok.k = "word" /\ MentionsBtc(Upper(tok.v))
               THEN [r EXCEPT !.btc_status = FirstWord(Upper(tok.v))]
               ELSE r
          [] line.label = "WHALE_ALERT" -> [r EXCEPT !.whale_alert = ContainsYes(tok)]
          [] line.label = "REASON" ->
               [r EXCEPT !.reason =
                    Reason("parsed", IF tok.k = "word" THEN tok.v ELSE "")]
          [] OTHER -> r

RECURSIVE ParseSentimentLines(_, _, _)
ParseSentimentLines(lines, i, r) ==
    IF i > Len(lines) THEN r
    ELSE ParseSentimentLines(lines, i + 1, ParseSentimentLine(lines[i], r))

\* _parse_sentiment_response: content None raises and leaves the defaults.
ParseSentimentResponse(response) ==
    IF response.kind = "none" THEN SentimentDefault
    ELSE ParseSentimentLines(response.lines, 1, SentimentDefault)

\* SentimentError answering take_trade = True.
SentimentError_TakesTrade(err) ==
    [take_trade |-> TRUE, sentiment |-> "NEUTRAL", buzz_score |-> 0,
     btc_status |-> "FLAT", whale_alert |-> FALSE,
     reason |-> Reason("api_error", err)]

\* The dict analyze_with_sentiment returns from its except branch.
SentimentError(err) ==
    [take_trade |-> FALSE, sentiment |-> "NEUTRAL", buzz_score |-> 0,
     btc_status |-> "FLAT", whale_alert |-> FALSE,
     reason |-> Reason("api_error", err)]

\* analyze_with_sentiment: the oracle call either raises err or answers.
AnalyzeWithSentiment(oracle) ==
    IF oracle.kind = "raise" THEN SentimentError(oracle.err)
    ELSE ParseSentimentResponse(oracle)

\* ------------------------------------------------- layer matcher, layers.py
\* The Layer dataclass.
Layer(price, type, touches, strength, dist) ==
    [price |-> price, layer_type |-> type, touches |-> touches,
     strength |-> strength, distance_pct |-> dist]

\* None, where a Layer is expected.
NoLayer == Layer(0, "none", 0, 0, 0)

\* float('inf') as the start of min_distance.
Infinity == -1

\* LessThan with `<=` for `<`: a later layer at the same distance wins.
LessThan_OrEqual(d, m) == m = Infinity \/ d <= m

LessThan(d, m) == m = Infinity \/ d < m

RECURSIVE NearestScan(_, _, _, _, _)
\* The loop "for layer in all_layers" from position i on.
NearestScan(all_layers, i, nearest, min_distance, threshold_pct) ==
    IF i > Len(all_layers) THEN nearest
    ELSE LET layer == all_layers[i]
         IN  IF LessThan(layer.distance_pct, min_distance)
                /\ layer.distance_pct <= threshold_pct
             THEN NearestScan(all_layers, i + 1, layer, layer.distance_pct,
                              threshold_pct)
             ELSE NearestScan(all_layers, i + 1, nearest, min_distance,
                              threshold_pct)

\* find_nearest_layer (current_price is not read by the code).
find_nearest_layer(resistance_layers, support_layers, threshold_pct) ==
    NearestScan(resistance_layers \o support_layers, 1, NoLayer, Infinity,
                threshold_pct)

Abs(x) == IF x < 0 THEN -x ELSE x

\* ------------------------------------------- swings and clusters, layers.py
(* The arrays of a window are sequences of whole ticks; position i of the  *)
(* code (0-based) is element i + 1 here.  A weighted average or a          *)
(* percentage need not be whole: such a value is the fraction n / d in     *)
(* lowest terms with d > 0, all arithmetic being exact.  The distance_pct  *)
(* of a Layer that find_layers builds is such a fraction, in percent.      *)
At(arr, i) == arr[i + 1]

RECURSIVE Gcd(_, _)
Gcd(a, b) == IF b = 0 THEN a ELSE Gcd(b, a % b)

Frac(n, d) ==
    LET g == Gcd(Abs(n), d)
    IN  [n |-> n \div g, d |-> d \div g]
FracLess(a, b) == a.n * b.d < b.n * a.d
FracEq(a, b) == a.n * b.d = b.n * a.d

\* find_layers is called with cluster_threshold = 0.1 (percent, here in
\* hundredths of a percent) and max_layers = 4; it answers two empty lists
\* for fewer than 10 bars; a touch is recent within the last 20 bars.
CLUSTER_THRESHOLD == 10
MAX_LAYERS == 4
MIN_LAYER_BARS == 10
RECENT_BARS == 20
\* The lookback default of the swing detectors.
LOOKBACK == 2

RECURSIVE SwingHighsFrom_NonStrict(_, _, _)
\* SwingHighsFrom with `<` for `<=`: a bar level with a neighbour counts.
SwingHighsFrom_NonStrict(highs, i, lookback) ==
    IF i >= Len(highs) - lookback THEN << >>
    ELSE (IF \A j \in 1..lookback :
                 ~(At(highs, i) < At(highs, i - j) \/ At(highs, i) < At(highs, i + j))
          THEN <<[idx |-> i, price |-> At(highs, i)]>> ELSE << >>)
         \o SwingHighsFrom_NonStrict(highs, i + 1, lookback)

RECURSIVE SwingHighsFrom(_, _, _)
\* `for i in range(lookback, len(highs) - lookback)` from i on; the inner
\* loop keeps highs[i] if it is strictly above its neighbours at distances
\* 1..lookback.
SwingHighsFrom(highs, i, lookback) ==
    IF i >= Len(highs) - lookback THEN << >>
    ELSE (IF \A j \in 1..lookback :
                 ~(At(highs, i) <= At(highs, i - j) \/ At(highs, i) <= At(highs, i + j))
          THEN <<[idx |-> i, price |-> At(highs, i)]>> ELSE << >>)
         \o SwingHighsFrom(highs, i + 1, lookback)

RECURSIVE SwingLowsFrom(_, _, _)
SwingLowsFrom(lows, i, lookback) ==
    IF i >= Len(lows) - lookback THEN << >>
    ELSE (IF \A j \in 1..lookback :
                 ~(At(lows, i) >= At(lows, i - j) \/ At(lows, i) >= At(lows, i + j))
          THEN <<[idx |-> i, price |-> At(lows, i)]>> ELSE << >>)
         \o SwingLowsFrom(lows, i + 1, lookback)

detect_swing_highs(highs, lookback) == SwingHighsFrom(highs, lookback, lookback)
detect_swing_lows(lows, lookback) == SwingLowsFrom(lows, lookback, lookback)

\* abs(cluster['price'] - price) / price * 100 < threshold_pct, for price > 0.
WithinThreshold(cluster, price, threshold_pct) ==
    Abs(cluster.price.n - price * cluster.price.d) * 10000
      < threshold_pct * price * cluster.price.d

\* FirstFit taking the last matching cluster instead of the first.
FirstFit_Last(clusters, price, threshold_pct) ==
    LET fits == { k \in 1..Len(clusters) :
                    WithinThreshold(clusters[k], price, threshold_pct) }
    IN  IF fits = {} THEN 0
        ELSE CHOOSE k \in fits : \A j \in fits : j <= k

\* `for cluster in clusters: if ...: ...; break`: the position of the first
\* cluster the price is within the threshold of, 0 if there is none.
FirstFit(clusters, price, threshold_pct) ==
    LET fits == { k \in 1..Len(clusters) :
                    WithinThreshold(clusters[k], price, threshold_pct) }
    IN  IF fits = {} THEN 0
        ELSE CHOOSE k \in fits : \A j \in fits : k <= j

\* MergeLevel averaging the cluster price and the new price one to one.
MergeLevel_Unweighted(cluster, idx, price) ==
    [price |-> Frac(cluster.price.n + price * cluster.price.d, cluster.price.d * 2),
     touches |-> cluster.touches + 1,
     indices |-> Append(cluster.indices, idx)]

\* "Update cluster with weighted average".
MergeLevel(cluster, idx, price) ==
    LET total_touches == cluster.touches + 1
    IN  [price |-> Frac(cluster.price.n * cluster.touches + price * cluster.price.d,
                        cluster.price.d * total_touches),
         touches |-> total_touches,
         indices |-> Append(cluster.indices, idx)]

\* One iteration of `for idx, price in levels`: the level joins the first
\* cluster it fits or opens a cluster of its own.
ClusterAdd(clusters, level, threshold_pct) ==
    LET k == FirstFit(clusters, level.price, threshold_pct)
    IN  IF k = 0
        THEN Append(clusters, [price |-> Frac(level.price, 1), touches |-> 1,
                               indices |-> <<level.idx>>])
        ELSE [clusters EXCEPT ![k] = MergeLevel(@, level.idx, level.price)]

RECURSIVE ClusterLoop(_, _, _, _)
ClusterLoop(levels, i, clusters, threshold_pct) ==
    IF i > Len(levels) THEN clusters
    ELSE ClusterLoop(levels, i + 1, ClusterAdd(clusters, levels[i], threshold_pct),
                     threshold_pct)

cluster_levels(levels, threshold_pct) == ClusterLoop(levels, 1, << >>, threshold_pct)

\* ------------------------------------------- strength and layers, layers.py
RECURSIVE SumSeq(_)
\* sum(...) of a list.
SumSeq(xs) == IF xs = << >> THEN 0 ELSE Head(xs) + SumSeq(Tail(xs))

RECURSIVE TouchVolumes(_, _)
\* [volumes[i] for i in cluster['indices'] if i < len(volumes)].
TouchVolumes(indices, volumes) ==
    IF indices = << >> THEN << >>
    ELSE (IF Head(indices) < Len(volumes) THEN <<At(volumes, Head(indices))>>
          ELSE << >>)
         \o TouchVolumes(Tail(indices), volumes)

\* "Factor 1: Multiple touches".
MultipleTouches(cluster) == cluster.touches >= 2

\* "Factor 2: Recency (touch in last 20 bars)".
HasRecent(cluster, total_bars) ==
    \E k \in 1..Len(cluster.indices) :
      cluster.indices[k] >= total_bars - RECENT_BARS

\* "Factor 3: Volume confirmation": avg_touch_volume > avg_volume * 1.2,
\* the two means compared without dividing.  volumes = None and volumes = []
\* are both the empty sequence here (both are false in `if volumes`).
VolumeConfirmed(cluster, volumes) ==
    /\ volumes # << >>
    /\ cluster.indices # << >>
    /\ LET touch_volumes == TouchVolumes(cluster.indices, volumes)
       IN  /\ touch_volumes # << >>
           /\ SumSeq(touch_volumes) * Len(volumes) * 10
                > SumSeq(volumes) * 12 * Len(touch_volumes)

\* ClampStrength without the floor of 1.
ClampStrength_NoFloor(strength) == IF strength > 3 THEN 3 ELSE strength

\* max(1, min(3, strength)).
ClampStrength(strength) ==
    LET capped == IF strength < 3 THEN strength ELSE 3
    IN  IF capped > 1 THEN capped ELSE 1

calculate_layer_strength(cluster, total_bars, volumes) ==
    ClampStrength((IF MultipleTouches(cluster) THEN 1 ELSE 0)
                  + (IF HasRecent(cluster, total_bars) THEN 1 ELSE 0)
                  + (IF VolumeConfirmed(cluster, volumes) THEN 1 ELSE 0))

\* AboveCurrent with `>=` for `>`.
AboveCurrent_OrEqual(cluster, current_price) ==
    cluster.price.n >= current_price * cluster.price.d

\* `cluster['price'] > current_price` / `cluster['price'] < current_price`.
AboveCurrent(cluster, current_price) ==
    cluster.price.n > current_price * cluster.price.d
BelowCurrent(cluster, current_price) ==
    cluster.price.n < current_price * cluster.price.d

\* abs(price - current_price) / current_price * 100, the distance both
\* loops of find_layers compute on their side of the current price.
Distance(cluster, current_price) ==
    Frac(Abs(cluster.price.n - current_price * cluster.price.d) * 100,
         current_price * cluster.price.d)

RECURSIVE ResistanceLayers(_, _, _, _)
\* "for cluster in resistance_clusters".
ResistanceLayers(clusters, current_price, total_bars, volumes) ==
    IF clusters = << >> THEN << >>
    ELSE LET cluster == Head(clusters)
         IN  (IF AboveCurrent(cluster, current_price)
              THEN <<Layer(cluster.price, "resistance", cluster.touches,
                           calculate_layer_strength(cluster, total_bars, volumes),
                           Distance(cluster, current_price))>>
              ELSE << >>)
             \o ResistanceLayers(Tail(clusters), current_price, total_bars, volumes)

RECURSIVE SupportLayers(_, _, _, _)
\* "for cluster in support_clusters".
SupportLayers(clusters, current_price, total_bars, volumes) ==
    IF clusters = << >> THEN << >>
    ELSE LET cluster == Head(clusters)
         IN  (IF BelowCurrent(cluster, current_price)
              THEN <<Layer(cluster.price, "support", cluster.touches,
                           calculate_layer_strength(cluster, total_bars, volumes),
                           Distance(cluster, current_price))>>
              ELSE << >>)
             \o SupportLayers(Tail(clusters), current_price, total_bars, volumes)

\* KeyLess comparing the distance alone.
KeyLess_DistanceOnly(a, b) == FracLess(a.distance_pct, b.distance_pct)

\* The order of key=lambda x: (-x.touches, x.distance_pct).
KeyLess(a, b) ==
    \/ a.touches > b.touches
    \/ a.touches = b.touches /\ FracLess(a.distance_pct, b.distance_pct)

RECURSIVE InsertSorted(_, _)
\* x goes behind every element whose key is not above its own (list.sort
\* is stable).
InsertSorted(sorted, x) ==
    IF sorted = << >> THEN <<x>>
    ELSE IF KeyLess(x, Head(sorted)) THEN <<x>> \o sorted
    ELSE <<Head(sorted)>> \o InsertSorted(Tail(sorted), x)

RECURSIVE SortLayers(_)
SortLayers(layers) ==
    IF layers = << >> THEN << >>
    ELSE InsertSorted(SortLayers(SubSeq(layers, 1, Len(layers) - 1)),
                      layers[Len(layers)])

\* layers[:half_max].
Truncate(layers, half_max) ==
    SubSeq(layers, 1, IF Len(layers) < half_max THEN Len(layers) ELSE half_max)

\* find_layers: <<resistance_layers, support_layers>>.
find_layers(highs, lows, closes, volumes, cluster_threshold, max_layers) ==
    IF Len(highs) < MIN_LAYER_BARS THEN << << >>, << >> >>
    ELSE LET current_price == At(closes, Len(closes) - 1)
             total_bars == Len(closes)
             resistance_clusters ==
                 cluster_levels(detect_swing_highs(highs, LOOKBACK), cluster_threshold)
             support_clusters ==
                 cluster_levels(detect_swing_lows(lows, LOOKBACK), cluster_threshold)
             half_max == max_layers \div 2
         IN  << Truncate(SortLayers(ResistanceLayers(resistance_clusters,
                                                     current_price, total_bars,
                                                     volumes)), half_max),
                Truncate(SortLayers(SupportLayers(support_clusters, current_price,
                                                  total_bars, volumes)), half_max) >>

\* ------------------------------------------------- position sizer, utils.py
\* round(num / den, 0) for num >= 0, den > 0, ties to the even neighbour.
RoundHalfEven(num, den) ==
    LET q == num \div den
        r == num % den
    IN  IF 2 * r < den THEN q
        ELSE IF 2 * r > den THEN q + 1
        ELSE IF q % 2 = 0 THEN q ELSE q + 1

\* `abs(entry - stop_loss) / entry * 100` divides by the entry before
\* anything is tested: ZeroDivisionError for entry = 0.
PositionSizeRaises(entry, stop_loss) == entry = 0

\* calculate_position_size where it returns, in cents; risk_percent in
\* tenths of a percent.  The leverage is not read.
calculate_position_size(account_balance, risk_percent, entry, stop_loss, leverage) ==
    IF Abs(entry - stop_loss) = 0 THEN 0
    ELSE RoundHalfEven(account_balance * risk_percent * entry,
                       10 * Abs(entry - stop_loss))

\* ------------------------------------------------------ indicators, utils.py
\* `volumes[-1] / (sum(volumes) / len(volumes)) if volumes else 1.0`, as
\* on_candle and find_setups compute it: the exact ratio, or the
\* ZeroDivisionError of a mean that is 0.0.
volume_ratio(volumes) ==
    IF volumes = << >> THEN [raised |-> FALSE, value |-> Frac(1, 1)]
    ELSE IF SumSeq(volumes) = 0 THEN [raised |-> TRUE, value |-> Frac(0, 1)]
    ELSE [raised |-> FALSE,
          value |-> Frac(volumes[Len(volumes)] * Len(volumes), SumSeq(volumes))]

\* period = 14 of calculate_atr and calculate_adx; threshold = 25.0 of
\* is_ranging.
INDICATOR_PERIOD == 14
RANGING_THRESHOLD == 25

\* calculate_atr / calculate_adx on a window of n bars whose smoothed value
\* is `reading`: 0.0 for a window too short to smooth over.
calculate_atr(n, reading) == IF n < INDICATOR_PERIOD + 1 THEN 0 ELSE reading
calculate_adx(n, reading) == IF n < INDICATOR_PERIOD * 2 THEN 0 ELSE reading

is_ranging(adx_value) == adx_value < RANGING_THRESHOLD

\* market_status = "RANGE" if is_ranging(adx) else "TREND".
MarketStatus(adx) == IF is_ranging(adx) THEN "RANGE" ELSE "TREND"

\* ---------------------------------------------------------------- state
VARIABLES
    now,               \* time.time() / datetime.utcnow(), in seconds
    running,           \* BinanceWebSocket.running
    pc,                \* where stream_candles is: "init", "watch", "notify",
                       \* "sleep" or "done"
    cycles,            \* candle updates (and failed waits) so far
    last_api_call,     \* PepeScalpingBot.last_api_call
    daily_calls,       \* PepeScalpingBot.daily_calls
    daily_x_searches,  \* PepeScalpingBot.daily_x_searches
    last_reset_day,    \* PepeScalpingBot.last_reset_day
    cyc,               \* what the latest cycle did (observation only)
    last_tech_call,    \* time of the latest technical oracle call, 0 if none
    reset_epoch_day,   \* calendar day the counters were last zeroed in
    nl,                \* the matcher applied to drawn lists (SpecNearest)
    call,              \* a function of layers.py, utils.py or grok.py applied
                       \* to drawn arguments (SpecCluster, SpecStrength, ...)
    bt                 \* the tasks of analyze_all_setups_async (SpecBacktestLive)

vars == <<now, running, pc, cycles, last_api_call, daily_calls,
          daily_x_searches, last_reset_day, cyc, last_tech_call,
          reset_epoch_day, nl, call, bt>>

\* The variables of the live pipeline and its stream loop.
streamVars == <<now, running, pc, cycles, last_api_call, daily_calls,
                daily_x_searches, last_reset_day, cyc, last_tech_call,
                reset_epoch_day>>

\* The RateLimitState fields as one value.
RateLimitState ==
    [last_api_call |-> last_api_call, daily_calls |-> daily_calls,
     daily_x_searches |-> daily_x_searches, last_reset_day |-> last_reset_day]

\* ------------------------------------------------------- inputs of a cycle
\* len(candles) of an update: none, one short of the minimum, the minimum.
WindowLengths == {0, MIN_CANDLES - 1, MIN_CANDLES}
\* closes[-1] and the smoothed ATR of a window, in ticks, and its smoothed
\* ADX (a trending market).
Prices == {10000}
Atrs == {2}
Adxs == {RANGING_THRESHOLD + 5}

\* (resistance_layers, support_layers) as find_layers returns them for a
\* price of 10000: at most max_layers // 2 = 2 a side, each side sorted by
\* (-touches, distance_pct), one tick of distance being 0.01 %.
LayerInputs ==
    { <<<< >>, << >>>>,
      <<<<Layer(10020, "resistance", 1, 1, 20)>>, << >>>>,
      <<<<Layer(10020, "resistance", 2, 2, 20), Layer(10010, "resistance", 1, 1, 10)>>,
        <<Layer(9990, "support", 1, 2, 10)>>>> }

Text(lines) == [kind |-> "text", lines |-> lines, err |-> ""]
Raise(err) == [kind |-> "raise", lines |-> << >>, err |-> err]
NoContent == [kind |-> "none", lines |-> << >>, err |-> ""]
\* No oracle was asked.
NoOracle == [kind |-> "unasked", lines |-> << >>, err |-> ""]

\* A response in the format the prompt asks for.
Formatted(dir, conf, tp, sl) ==
    Text(<<Line("DIRECTION", dir), Line("CONFIDENCE", conf), Line("TP", tp),
           Line("SL", sl), Line("REASON", Word("layer bounce"))>>)

\* What the technical oracle call may do: raise, answer nothing, answer in
\* format at the edges of the confidence bands, leave the bracket out, and
\* answer out of format.
TechOracles ==
    { Raise("timeout"), Text(<< >>) }
    \cup { Formatted(Word("LONG"), Num(c), Num(10100), Num(9900)) :
             c \in {MIN_CONFIDENCE - 1, MIN_CONFIDENCE, HIGH_CONFIDENCE - 1,
                    HIGH_CONFIDENCE} }
    \cup { Formatted(Word("long"), Num(85), Num(0), Num(0)),
           Formatted(Word("LONG"), Num(85), Num(10100), Num(0)),
           Formatted(Word("SHORT"), Num(65), Num(0), NoNum),
           Formatted(Word("SKIP"), Num(85), Num(0), Num(0)),
           Formatted(Word("LONG"), Num(85), BadNum(1), Num(9900)),
           Text(<<Line("CONFIDENCE", Num(70)), Line("TP", Num(10100)),
                  Line("SL", Num(9900))>>) }

\* What the sentiment oracle call may do.
SentimentOracles ==
    { Raise("timeout"),
      Text(<<Line("TAKE_TRADE", Word("yes")), Line("SENTIMENT", Word("bullish")),
             Line("BUZZ_SCORE", Num(70)), Line("BTC_STATUS", Word("GOING UP")),
             Line("WHALE_ALERT", Word("NO")), Line("REASON", Word("buzz"))>>),
      Text(<<Line("TAKE_TRADE", Word("NO")), Line("SENTIMENT", Word("BEARISH")),
             Line("REASON", Word("btc dumping"))>>) }

\* --------------------------------------------------- the rate-limit gate
\* "Reset daily counters", the first lines of can_call_api.
ResetDailyCounters(rl, t) ==
    IF UtcDay(t) # rl.last_reset_day
    THEN [rl EXCEPT !.daily_calls = 0, !.daily_x_searches = 0,
                    !.last_reset_day = UtcDay(t)]
    ELSE rl

\* "Check daily limit": the budget is exhausted.
DailyLimitReached(rl) == rl.daily_calls >= MAX_CALLS_PER_DAY

\* CooldownOver with the comparison one second early.
CooldownOver_OneSecondEarly(rl, t) == t - rl.last_api_call >= COOLDOWN_SECONDS - 1

\* "Check cooldown": elapsed >= COOLDOWN_SECONDS.
CooldownOver(rl, t) == t - rl.last_api_call >= COOLDOWN_SECONDS

\* can_call_api at time t: the state it leaves and what it returns.
can_call_api(rl, t) ==
    LET rolled == ResetDailyCounters(rl, t)
    IN  [rl |-> rolled,
         ok |-> IF DailyLimitReached(rolled) THEN FALSE ELSE CooldownOver(rolled, t)]

\* A charge that stamps the time and leaves the counter.
ChargeCall_TimestampOnly(rl, t) == [rl EXCEPT !.last_api_call = t]

\* The charge of STEP 1: last_api_call = time.time(); daily_calls += 1.
ChargeCall(rl, t) ==
    [rl EXCEPT !.last_api_call = t, !.daily_calls = @ + 1]

\* ConfidenceBranch with `>` for `>=` at the high threshold.
ConfidenceBranch_StrictHigh(confidence) ==
    IF confidence < MIN_CONFIDENCE THEN "skip"
    ELSE IF confidence > HIGH_CONFIDENCE THEN "high"
    ELSE "borderline"

\* The three ways of the DECISION LOGIC on a confidence.
ConfidenceBranch(confidence) ==
    IF confidence < MIN_CONFIDENCE THEN "skip"
    ELSE IF confidence >= HIGH_CONFIDENCE THEN "high"
    ELSE "borderline"

\* SearchLimitReached with `>` for `>=`.
SearchLimitReached_Strict(rl) == rl.daily_x_searches > MAX_X_SEARCHES_PER_DAY

\* "X search limit reached".
SearchLimitReached(rl) == rl.daily_x_searches >= MAX_X_SEARCHES_PER_DAY

\* The charge of STEP 2: daily_x_searches += 1.
ChargeSearch(rl) == [rl EXCEPT !.daily_x_searches = @ + 1]

\* ------------------------------------------------------------ the cycle
\* The result of an oracle that was not asked.
NoResult ==
    [direction |-> "NONE", confidence |-> 0, tp |-> 0, sl |-> 0,
     reason |-> Reason("none", "")]
NoSentiment ==
    [take_trade |-> FALSE, sentiment |-> "NONE", buzz_score |-> 0,
     btc_status |-> "NONE", whale_alert |-> FALSE, reason |-> Reason("none", "")]

\* A line of stdout, by the print statement that writes it.
LogLine(tag) == tag

\* The record of a cycle that starts at time t in rate-limit state rl;
\* dispatch is the rate-limit state analyze_technical is invoked in (rl
\* until it is).
NewCycle(t, rl, n) ==
    [time |-> t, window |-> n, outcome |-> "NONE", raised |-> "none",
     after_fault |-> (cyc.raised # "none"), overlapped |-> (cyc.notify = "pending"),
     pre |-> rl, near |-> NoLayer, reset |-> FALSE, gate |-> "none",
     atr |-> 0, adx |-> 0, market_status |-> "NONE", log |-> << >>,
     prev_tech_call |-> last_tech_call, prev_reset_day |-> reset_epoch_day,
     tech_calls |-> 0, dispatch |-> rl, oracle |-> NoOracle, result |-> NoResult,
     sized |-> FALSE, position_size |-> 0,
     x_calls |-> 0, x_oracle |-> NoOracle, x_result |-> NoSentiment,
     alerts |-> << >>, notify |-> "none"]

\* The payload of send_high_confidence_alert.
HighAlert(r, entry, size) ==
    [kind |-> "high", direction |-> r.direction, entry |-> entry, tp |-> r.tp,
     sl |-> r.sl, size |-> size, confidence |-> r.confidence,
     sentiment |-> "NONE", reason |-> r.reason]

\* The payload of send_borderline_alert.
BorderlineAlert(r, x, entry, size) ==
    [kind |-> "borderline", direction |-> r.direction, entry |-> entry,
     tp |-> r.tp, sl |-> r.sl, size |-> size, confidence |-> r.confidence,
     sentiment |-> x.sentiment, reason |-> x.reason]

\* `while self.running` at the top of the stream loop.
LoopTop(run) == IF run THEN "watch" ELSE "done"

\* The stream loop without its except branch: the exception ends the loop.
StreamExcept_Propagates(run) == "done"

\* `except Exception` of the stream loop: print, then asyncio.sleep(5).
StreamExcept(run) == "sleep"

\* AfterCallback for a callback started as a task of its own: the loop goes
\* on while the callback is suspended.
AfterCallback_Detached(ctl, run) ==
    CASE ctl = "raise" -> StreamExcept(run)
      [] OTHER -> LoopTop(run)

\* How the callback leaves the stream loop: it returned, it raised, or it
\* is suspended in `await self.bot.send_message`, and the loop with it
\* (`await self.on_candle_callback(self.candles)`).
AfterCallback(ctl, run) ==
    CASE ctl = "return" -> LoopTop(run)
      [] ctl = "raise" -> StreamExcept(run)
      [] OTHER -> "notify"

\* The end of the synchronous part of a cycle: the state it leaves.
Finish(rl, c, ctl) ==
    /\ last_api_call' = rl.last_api_call
    /\ daily_calls' = rl.daily_calls
    /\ daily_x_searches' = rl.daily_x_searches
    /\ last_reset_day' = rl.last_reset_day
    /\ cyc' = c
    /\ last_tech_call' = IF c.tech_calls > 0 THEN c.time ELSE last_tech_call
    /\ reset_epoch_day' = IF c.reset THEN EpochDay(c.time) ELSE reset_epoch_day
    /\ pc' = AfterCallback(ctl, running)

\* A step of the cycle raises: the exception leaves on_candle.
Fault(rl, c, step) ==
    Finish(rl, [c EXCEPT !.outcome = "FAULT", !.raised = step], "raise")

\* TakeTrade ignoring the sentiment oracle's answer.
TakeTrade_Always(x) == TRUE

\* `if x_result['take_trade']`.
TakeTrade(x) == x.take_trade

\* STEP 2 of on_candle: the borderline band, after the position is sized.
Borderline(rl, c, price) ==
    IF SearchLimitReached(rl)
    THEN Finish(rl, [c EXCEPT !.outcome = "SKIP_BUDGET",
                              !.log = Append(@, LogLine("x_limit"))],
                "return")
    ELSE \E logRaises \in BOOLEAN :
         LET cb == [c EXCEPT !.log = Append(@, LogLine("borderline"))]
         IN
         IF logRaises THEN Fault(ChargeSearch(rl), cb, "log_api_call")
         ELSE \E xo \in SentimentOracles :
              LET x == AnalyzeWithSentiment(xo)
                  cx == [cb EXCEPT !.x_calls = @ + 1, !.x_oracle = xo, !.x_result = x,
                                   !.log = Append(@, LogLine("x_result"))]
              IN  IF TakeTrade(x)
                  THEN \E tradeLogRaises \in BOOLEAN :
                       LET cc == [cx EXCEPT !.log = Append(@, LogLine("x_confirmed"))]
                       IN
                       IF tradeLogRaises
                       THEN Fault(ChargeSearch(rl), cc, "log_trade_signal")
                       ELSE Finish(ChargeSearch(rl),
                                   [cc EXCEPT !.outcome = "ALERT_BORDERLINE",
                                              !.notify = "pending",
                                              !.alerts = Append(@,
                                                  BorderlineAlert(c.result, x, price,
                                                                  c.position_size))],
                                   "await")
                  ELSE Finish(ChargeSearch(rl),
                              [cx EXCEPT !.outcome = "SKIP_REJECTED",
                                         !.log = Append(@, LogLine("x_rejected"))],
                              "return")

\* DECISION LOGIC of on_candle on the technical result r.
Decide(rl, c, price) ==
    LET r == c.result
    IN  IF ConfidenceBranch(r.confidence) = "skip"
        THEN Finish(rl, [c EXCEPT !.outcome = "SKIP_LOW",
                                  !.log = Append(@, LogLine("skip_low_confidence"))],
                    "return")
        ELSE IF PositionSizeRaises(price, r.sl)
        THEN Fault(rl, c, "calculate_position_size")
        ELSE LET size == calculate_position_size(ACCOUNT_BALANCE, MAX_RISK_PERCENT,
                                                 price, r.sl, LEVERAGE)
                 cs == [c EXCEPT !.sized = TRUE, !.position_size = size]
             IN  IF ConfidenceBranch(r.confidence) = "high"
                 THEN \E tradeLogRaises \in BOOLEAN :
                      LET ch == [cs EXCEPT !.log = Append(@, LogLine("high_confidence"))]
                      IN
                      IF tradeLogRaises THEN Fault(rl, ch, "log_trade_signal")
                      ELSE Finish(rl,
                                  [ch EXCEPT !.outcome = "ALERT_HIGH",
                                             !.notify = "pending",
                                             !.alerts = Append(@,
                                                 HighAlert(r, price, size))],
                                  "await")
                 ELSE Borderline(rl, cs, price)

\* A readiness gate one candle short.
NotReady_OneShort(n) == n < MIN_CANDLES - 1

\* `if len(candles) < 20: return`.
NotReady(n) == n < MIN_CANDLES

\* on_candle for a window of n candles at time t, up to its first await.
on_candle(t, n) ==
    LET c0 == NewCycle(t, RateLimitState, n)
    IN  IF NotReady(n)
        THEN Finish(RateLimitState, [c0 EXCEPT !.outcome = "NOOP_NOT_READY"], "return")
        ELSE \E computeRaises \in BOOLEAN :
             IF computeRaises THEN Fault(RateLimitState, c0, "compute")
             ELSE \E price \in Prices, atrReading \in Atrs, adxReading \in Adxs,
                     layers \in LayerInputs :
                  LET atr == calculate_atr(n, atrReading)
                      adx == calculate_adx(n, adxReading)
                      ci == [c0 EXCEPT !.atr = atr, !.adx = adx,
                                       !.market_status = MarketStatus(adx)]
                      near == find_nearest_layer(layers[1], layers[2],
                                                 LAYER_THRESHOLD_PCT)
                  IN  IF near = NoLayer
                      THEN Finish(RateLimitState,
                                  [ci EXCEPT !.outcome = "NOOP_NO_LAYER"], "return")
                      ELSE LET g == can_call_api(RateLimitState, t)
                               c1 == [ci EXCEPT !.near = near,
                                                !.reset = (g.rl # RateLimitState),
                                                !.gate = IF g.ok THEN "pass" ELSE "refuse"]
                               c2 == [c1 EXCEPT !.log = Append(@, LogLine("near_layer"))]
                           IN  IF ~g.ok
                               THEN Finish(g.rl, [c1 EXCEPT !.outcome = "REFUSED"],
                                           "return")
                               ELSE \E logRaises \in BOOLEAN :
                                    IF logRaises
                                    THEN Fault(ChargeCall(g.rl, t), c2, "log_api_call")
                                    ELSE \E o \in TechOracles :
                                         LET r == AnalyzeTechnical(o, price, atr)
                                         IN
                                         Decide(ChargeCall(g.rl, t),
                                                [c2 EXCEPT !.tech_calls = @ + 1,
                                                           !.dispatch =
                                                             ChargeCall(g.rl, t),
                                                           !.oracle = o,
                                                           !.result = r,
                                                           !.log = Append(@,
                                                             LogLine("analysis"))],
                                                price)

\* ------------------------------------------------------- the stream loop
\* stream_candles starts: self.running = True.
StartStream ==
    /\ pc = "init"
    /\ running' = TRUE
    /\ pc' = "watch"
    /\ UNCHANGED <<now, cycles, last_api_call, daily_calls, daily_x_searches,
                   last_reset_day, cyc, last_tech_call, reset_epoch_day, nl, call, bt>>

\* One pass of the loop body: watch_ohlcv answers (or raises) after d
\* seconds, self.candles is rebuilt and the callback runs to its first await.
CandleUpdate ==
    /\ pc = "watch"
    /\ cycles < MaxCycles
    /\ \E d \in Elapsed, n \in WindowLengths, watchRaises \in BOOLEAN :
         /\ now' = now + d
         /\ cycles' = cycles + 1
         /\ UNCHANGED <<running, nl, call, bt>>
         /\ IF watchRaises
            THEN /\ n = 0
                 /\ cyc' = [NewCycle(now + d, RateLimitState, 0) EXCEPT
                                !.outcome = "WATCH_ERROR", !.raised = "watch_ohlcv"]
                 /\ pc' = StreamExcept(running)
                 /\ UNCHANGED <<last_api_call, daily_calls, daily_x_searches,
                                last_reset_day, last_tech_call, reset_epoch_day>>
            ELSE IF n = 0
            THEN /\ cyc' = [NewCycle(now + d, RateLimitState, 0) EXCEPT
                                !.outcome = "NO_CALLBACK"]
                 /\ pc' = LoopTop(running)
                 /\ UNCHANGED <<last_api_call, daily_calls, daily_x_searches,
                                last_reset_day, last_tech_call, reset_epoch_day>>
            ELSE on_candle(now + d, n)

\* `await self.bot.send_message` ends: sent, TelegramError (caught by
\* send_message, which returns False), or another exception, which leaves
\* on_candle.
NotifyDone ==
    /\ pc = "notify"
    /\ \E how \in {"sent", "telegram_error", "raised"} :
         /\ cyc' = [cyc EXCEPT !.notify = how,
                               !.raised = IF how = "raised" THEN "send_message" ELSE @]
         /\ pc' = AfterCallback(IF how = "raised" THEN "raise" ELSE "return", running)
    /\ UNCHANGED <<now, running, cycles, last_api_call, daily_calls,
                   daily_x_searches, last_reset_day, last_tech_call,
                   reset_epoch_day, nl, call, bt>>

\* asyncio.sleep(5) of the except branch ends; the loop tests self.running.
\* The clock is next read in a cycle, so the 5 seconds are part of the
\* Elapsed drawn there.
SleepDone ==
    /\ pc = "sleep"
    /\ pc' = LoopTop(running)
    /\ UNCHANGED <<now, running, cycles, last_api_call, daily_calls, daily_x_searches,
                   last_reset_day, cyc, last_tech_call, reset_epoch_day, nl, call, bt>>

\* stop(), called by another task while the loop is suspended in an await.
Stop ==
    /\ pc \in {"watch", "notify", "sleep"}
    /\ running
    /\ running' = FALSE
    /\ UNCHANGED <<now, pc, cycles, last_api_call, daily_calls, daily_x_searches,
                   last_reset_day, cyc, last_tech_call, reset_epoch_day, nl, call, bt>>

\* ------------------------------------------------------------ the start
\* The matcher's variable outside SpecNearest.
NoMatcherRun == [res |-> << >>, sup |-> << >>, thr |-> 0, out |-> NoLayer,
                 done |-> FALSE]

\* No function is under observation / no backtest runs.
NoCall == [fn |-> "none", done |-> FALSE]
NoBacktest == [phase |-> "none"]

(* The counters after __init__, and two states of a bot that has run for   *)
(* some hours of the current day and has just charged a call: Headroom     *)
(* calls short of the daily call budget, and Headroom searches short of    *)
(* the daily search budget (each search follows a call of the same cycle,  *)
(* so searches <= calls).                                                  *)
Snapshots ==
    { [daily_calls |-> 0, daily_x_searches |-> 0, last_api_call |-> 0],
      [daily_calls |-> MAX_CALLS_PER_DAY - Headroom, daily_x_searches |-> 0,
       last_api_call |-> StartTime],
      [daily_calls |-> MAX_X_SEARCHES_PER_DAY,
       daily_x_searches |-> MAX_X_SEARCHES_PER_DAY - Headroom,
       last_api_call |-> StartTime] }

\* The record of "no cycle yet" in rate-limit state s.
NoCycle(s) ==
    [time |-> StartTime, window |-> 0, outcome |-> "NONE", raised |-> "none",
     after_fault |-> FALSE, overlapped |-> FALSE,
     pre |-> [last_api_call |-> s.last_api_call, daily_calls |-> s.daily_calls,
              daily_x_searches |-> s.daily_x_searches,
              last_reset_day |-> UtcDay(StartTime)],
     near |-> NoLayer, reset |-> FALSE, gate |-> "none",
     atr |-> 0, adx |-> 0, market_status |-> "NONE", log |-> << >>,
     prev_tech_call |-> s.last_api_call, prev_reset_day |-> EpochDay(StartTime),
     tech_calls |-> 0,
     dispatch |-> [last_api_call |-> s.last_api_call, daily_calls |-> s.daily_calls,
                   daily_x_searches |-> s.daily_x_searches,
                   last_reset_day |-> UtcDay(StartTime)],
     oracle |-> NoOracle, result |-> NoResult,
     sized |-> FALSE, position_size |-> 0,
     x_calls |-> 0, x_oracle |-> NoOracle, x_result |-> NoSentiment,
     alerts |-> << >>, notify |-> "none"]

Init ==
    /\ now = StartTime
    /\ running = FALSE
    /\ pc = "init"
    /\ cycles = 0
    /\ \E s \in Snapshots :
         /\ last_api_call = s.last_api_call
         /\ daily_calls = s.daily_calls
         /\ daily_x_searches = s.daily_x_searches
         /\ last_tech_call = s.last_api_call
         /\ cyc = NoCycle(s)
    /\ last_reset_day = UtcDay(StartTime)
    /\ reset_epoch_day = EpochDay(StartTime)
    /\ nl = NoMatcherRun
    /\ call = NoCall
    /\ bt = NoBacktest

Next == StartStream \/ CandleUpdate \/ NotifyDone \/ SleepDone \/ Stop

Spec == Init /\ [][Next]_vars

\* ------------------------------------------- the matcher on its own lists
\* Touch counts that tell two layers of one side at one distance apart.
\* The layers of one side at distances 0..MaxDist from a price of 10000.
LayerPool(type) ==
    { Layer(IF type = "resistance" THEN 10000 + d ELSE 10000 - d, type, n, 1, d) :
        d \in 0..MaxDist, n \in {1, 2} }

SeqsOfLen(S, k) == [1..k -> S]

\* Every (resistance_layers, support_layers) of at most MaxLayers layers.
MatcherLists ==
    UNION { SeqsOfLen(LayerPool("resistance"), k)
              \X UNION { SeqsOfLen(LayerPool("support"), j) : j \in 0..(MaxLayers - k) } :
            k \in 0..MaxLayers }

InitNearest ==
    /\ now = StartTime
    /\ running = FALSE
    /\ pc = "init"
    /\ cycles = 0
    /\ last_api_call = 0
    /\ daily_calls = 0
    /\ daily_x_searches = 0
    /\ last_tech_call = 0
    /\ cyc = NoCycle([daily_calls |-> 0, daily_x_searches |-> 0, last_api_call |-> 0])
    /\ last_reset_day = UtcDay(StartTime)
    /\ reset_epoch_day = EpochDay(StartTime)
    /\ \E ls \in MatcherLists, thr \in 0..MaxDist :
         nl = [res |-> ls[1], sup |-> ls[2], thr |-> thr, out |-> NoLayer,
               done |-> FALSE]
    /\ call = NoCall
    /\ bt = NoBacktest

\* find_nearest_layer is applied to the drawn lists.
ApplyNearest ==
    /\ ~nl.done
    /\ nl' = [nl EXCEPT !.out = find_nearest_layer(nl.res, nl.sup, nl.thr),
                        !.done = TRUE]
    /\ UNCHANGED <<streamVars, call, bt>>

SpecNearest == InitNearest /\ [][ApplyNearest]_vars

\* ---------------------------------- functions applied to drawn arguments
\* The live pipeline stands still while a function is applied on its own.
StreamIdle ==
    /\ now = StartTime
    /\ running = FALSE
    /\ pc = "init"
    /\ cycles = 0
    /\ last_api_call = 0
    /\ daily_calls = 0
    /\ daily_x_searches = 0
    /\ last_tech_call = 0
    /\ cyc = NoCycle([daily_calls |-> 0, daily_x_searches |-> 0, last_api_call |-> 0])
    /\ last_reset_day = UtcDay(StartTime)
    /\ reset_epoch_day = EpochDay(StartTime)

\* Prices of swing points, in ticks: 2002 is exactly 0.1 % above 2000, and
\* 2001 is within 0.1 % of both 2000 and 2003, which are further apart.
\* The swing lists of k points, in time order: point j sits at index
\* LOOKBACK + 3 (j - 1), two swings of one side being at least 3 bars apart.
SwingLists(k) ==
    { [j \in 1..k |-> [idx |-> LOOKBACK + 3 * (j - 1), price |-> f[j]]] :
        f \in [1..k -> {2000, 2001, 2002, 2003}] }

InitCluster ==
    /\ StreamIdle
    /\ nl = NoMatcherRun
    /\ bt = NoBacktest
    /\ \E k \in 0..MaxSwings : \E levels \in SwingLists(k) :
         call = [fn |-> "cluster_levels", levels |-> levels, out |-> << >>,
                 done |-> FALSE]

\* cluster_levels is applied to the drawn swing list.
ApplyCluster ==
    /\ call.fn = "cluster_levels"
    /\ ~call.done
    /\ call' = [call EXCEPT !.out = cluster_levels(call.levels, CLUSTER_THRESHOLD),
                            !.done = TRUE]
    /\ UNCHANGED <<streamVars, nl, bt>>

SpecCluster == InitCluster /\ [][ApplyCluster]_vars

\* The index of swing slot j of a window: slots are 3 bars apart, the first
\* at index LOOKBACK.
SlotIndex(j) == LOOKBACK + 3 * (j - 1)
\* The bars of a window of MaxSwings slots: the last slot has LOOKBACK bars
\* after it.
SlotBars(k) == SlotIndex(k) + LOOKBACK + 1

\* Clusters as cluster_levels builds them from swings at the slots: the
\* indices in time order and touches = len(indices).
SlotClusters ==
    { [price |-> Frac(2000, 1), touches |-> Len(g),
       indices |-> [j \in DOMAIN g |-> SlotIndex(g[j])]] :
        g \in { h \in UNION { [1..k -> 1..MaxSwings] : k \in 1..MaxSwings } :
                  \A i \in DOMAIN h : \A j \in DOMAIN h : i < j => h[i] < h[j] } }

\* The volumes of a window of n bars: none given; all equal; the bar of the
\* first slot 1.3 times the others; the bar of the first slot exactly 1.2
\* times the mean; and a list of LOOKBACK + 1 bars only, the last one high.
Volumes(kind, n) ==
    CASE kind = "none" -> << >>
      [] kind = "flat" -> [i \in 1..n |-> 10]
      [] kind = "spike" -> [i \in 1..n |-> IF i = SlotIndex(1) + 1 THEN 13 ELSE 10]
      [] kind = "edge" -> [i \in 1..n |-> IF i = SlotIndex(1) + 1 THEN 12
                                         ELSE IF i = 1 THEN 8 ELSE 10]
      [] OTHER -> [i \in 1..(LOOKBACK + 1) |-> IF i = LOOKBACK + 1 THEN 14 ELSE 8]

\* The arguments calculate_layer_strength is applied to.  sfx bars follow
\* the slots of the window: with none every slot is recent, with RECENT_BARS
\* none is.
StrengthArgs ==
    { [cluster |-> c, total_bars |-> SlotBars(MaxSwings) + sfx,
       volumes |-> Volumes(kind, SlotBars(MaxSwings) + sfx)] :
        c \in SlotClusters, sfx \in {0, 10, 15, RECENT_BARS},
        kind \in {"none", "flat", "spike", "edge", "short"} }

InitStrength ==
    /\ StreamIdle
    /\ nl = NoMatcherRun
    /\ bt = NoBacktest
    /\ \E a \in StrengthArgs :
         call = [fn |-> "calculate_layer_strength", args |-> a, out |-> 0,
                 done |-> FALSE]

\* calculate_layer_strength is applied to the drawn arguments.
ApplyStrength ==
    /\ call.fn = "calculate_layer_strength"
    /\ ~call.done
    /\ call' = [call EXCEPT !.out = calculate_layer_strength(call.args.cluster,
                                                           call.args.total_bars,
                                                           call.args.volumes),
                            !.done = TRUE]
    /\ UNCHANGED <<streamVars, nl, bt>>

SpecStrength == InitStrength /\ [][ApplyStrength]_vars

(* Windows for find_layers.  A quiet bar runs from Flat.low to Flat.high and *)
(* closes at Flat.close.  The bar of a slot may make a peak (its high at one *)
(* of PeakPrices), a trough (its low at one of TroughPrices) or both.  The  *)
(* last bar closes at the current price, which it reaches from the quiet    *)
(* range.  2001 and 1994 are levels a lone swing can have, and 2006 and     *)
(* 1989 are further than 0.1 % from every other level.                      *)
Flat == [high |-> 1998, low |-> 1997, close |-> 1998]
PeakPrices == <<2000, 2001, 2003, 2006>>
TroughPrices == <<1995, 1994, 1992, 1989>>

\* The slot (1..k) at 0-based index i of a window, 0 if i is no slot.
SlotAt(i, k) ==
    IF i >= LOOKBACK /\ (i - LOOKBACK) % 3 = 0 /\ (i - LOOKBACK) \div 3 < k
    THEN (i - LOOKBACK) \div 3 + 1 ELSE 0

\* The window of k slots whose slot j has level f[j] (0: a quiet bar).
WindowHighs(mode, f, k, price) ==
    [i \in 1..SlotBars(k) |->
       IF i = SlotBars(k) THEN (IF price > Flat.high THEN price ELSE Flat.high)
       ELSE IF mode # "troughs" /\ SlotAt(i - 1, k) # 0 /\ f[SlotAt(i - 1, k)] # 0
       THEN PeakPrices[f[SlotAt(i - 1, k)]]
       ELSE Flat.high]
WindowLows(mode, f, k, price) ==
    [i \in 1..SlotBars(k) |->
       IF i = SlotBars(k) THEN (IF price < Flat.low THEN price ELSE Flat.low)
       ELSE IF mode # "peaks" /\ SlotAt(i - 1, k) # 0 /\ f[SlotAt(i - 1, k)] # 0
       THEN TroughPrices[f[SlotAt(i - 1, k)]]
       ELSE Flat.low]
WindowCloses(k, price) ==
    [i \in 1..SlotBars(k) |-> IF i = SlotBars(k) THEN price ELSE Flat.close]

RECURSIVE DenominatorLcm(_)
\* The least common multiple of the denominators of the distances of layers.
DenominatorLcm(layers) ==
    IF layers = << >> THEN 1
    ELSE LET rest == DenominatorLcm(Tail(layers))
             d == Head(layers).distance_pct.d
         IN  (rest \div Gcd(rest, d)) * d

\* "Check if price is near any layer": find_nearest_layer on the two lists
\* find_layers returned, with threshold_pct = LAYER_THRESHOLD_PCT.  The
\* matcher compares distances with each other and with the threshold, so
\* they are handed to it in a unit in which all are whole: 1 / (100 * unit)
\* percent, unit being the common denominator of the distances.
NearLayerOf(layers) ==
    LET unit == DenominatorLcm(layers[1] \o layers[2])
        Whole(side) ==
            [i \in DOMAIN side |->
               [side[i] EXCEPT !.distance_pct = 100 * @.n * (unit \div @.d)]]
    IN  find_nearest_layer(Whole(layers[1]), Whole(layers[2]),
                           LAYER_THRESHOLD_PCT * unit)

\* The windows drawn for find_layers: up to MaxSwings slots at any level,
\* and MaxSwings + 1 slots of one side at levels that do not cluster, the
\* current price 0.05 % from the nearest of them.
InitLayers ==
    /\ StreamIdle
    /\ nl = NoMatcherRun
    /\ bt = NoBacktest
    /\ \/ \E k \in 2..MaxSwings, mode \in {"peaks", "troughs", "both"},
             price \in {1990, 1994, 1998, 2001, 2005}, kind \in {"none", "spike"} :
            \E f \in [1..k -> 0..Len(PeakPrices)] :
              call = [fn |-> "find_layers",
                      highs |-> WindowHighs(mode, f, k, price),
                      lows |-> WindowLows(mode, f, k, price),
                      closes |-> WindowCloses(k, price),
                      volumes |-> Volumes(kind, SlotBars(k)),
                      out |-> << << >>, << >> >>, near |-> NoLayer,
                      done |-> FALSE]
       \/ \E mode \in {"peaks", "troughs"} :
            \E f \in [1..(MaxSwings + 1) -> {1, 3, 4}] :
              LET k == MaxSwings + 1
                  price == IF mode = "peaks" THEN PeakPrices[1] - 1
                           ELSE TroughPrices[1] + 1
              IN  call = [fn |-> "find_layers",
                          highs |-> WindowHighs(mode, f, k, price),
                          lows |-> WindowLows(mode, f, k, price),
                          closes |-> WindowCloses(k, price),
                          volumes |-> << >>,
                          out |-> << << >>, << >> >>, near |-> NoLayer,
                          done |-> FALSE]

\* find_layers and then find_nearest_layer are applied to the drawn window
\* as on_candle applies them.
ApplyLayers ==
    /\ call.fn = "find_layers"
    /\ ~call.done
    /\ LET layers == find_layers(call.highs, call.lows, call.closes,
                                 call.volumes, CLUSTER_THRESHOLD, MAX_LAYERS)
       IN  call' = [call EXCEPT !.out = layers, !.near = NearLayerOf(layers),
                                !.done = TRUE]
    /\ UNCHANGED <<streamVars, nl, bt>>

SpecLayers == InitLayers /\ [][ApplyLayers]_vars

\* The arguments calculate_position_size is applied to: balances in USDT,
\* risks of 0.2 % and 1 %, prices in ticks of 0.01 (100 is 1.0, 99 is 0.99),
\* leverages.
InitSizer ==
    /\ StreamIdle
    /\ nl = NoMatcherRun
    /\ bt = NoBacktest
    /\ \E a \in [account_balance : {500, ACCOUNT_BALANCE},
                 risk_percent : {MAX_RISK_PERCENT, 10},
                 entry : {0, 1, 100, 101}, stop_loss : {0, 17, 99, 100, 101},
                 leverage : {1, LEVERAGE, 20}] :
         call = [fn |-> "calculate_position_size", args |-> a, raised |-> FALSE,
                 out |-> 0, done |-> FALSE]

\* calculate_position_size is applied to the drawn arguments.
ApplySizer ==
    /\ call.fn = "calculate_position_size"
    /\ ~call.done
    /\ call' = IF PositionSizeRaises(call.args.entry, call.args.stop_loss)
               THEN [call EXCEPT !.raised = TRUE, !.done = TRUE]
               ELSE [call EXCEPT !.out = calculate_position_size(
                                            call.args.account_balance,
                                            call.args.risk_percent, call.args.entry,
                                            call.args.stop_loss, call.args.leverage),
                                 !.done = TRUE]
    /\ UNCHANGED <<streamVars, nl, bt>>

SpecSizer == InitSizer /\ [][ApplySizer]_vars

\* A line the response does not have.
Absent == [k |-> "absent", v |-> 0, lead |-> 0]

\* The response with these values, in the order of the prompt's format or in
\* the opposite order.
ResponseOf(dir, conf, tp, sl, order) ==
    LET lines == <<Line("DIRECTION", dir), Line("CONFIDENCE", conf),
                   Line("TP", tp), Line("SL", sl)>>
        given == SelectSeq(lines, LAMBDA l : l.tok # Absent)
    IN  Text(IF order = "format" THEN given
             ELSE [i \in 1..Len(given) |-> given[Len(given) + 1 - i]])

\* What follows each label of a drawn technical response is nothing (no
\* such line), a well-formed value, or text the parser does not expect.
InitParse ==
    /\ StreamIdle
    /\ nl = NoMatcherRun
    /\ bt = NoBacktest
    /\ \E dir \in {Absent, Word("LONG"), Word("short"), Word("SKIP"), Word("BUY")},
          conf \in {Absent, Num(0), Num(75), Num(100), Num(150), NoNum},
          tp \in {Absent, Num(0), Num(10100), BadNum(1), NoNum},
          sl \in {Absent, Num(0), Num(9900), BadNum(1), NoNum},
          order \in {"format", "reversed"} :
         call = [fn |-> "_parse_technical_response",
                 response |-> ResponseOf(dir, conf, tp, sl, order),
                 loop |-> TechnicalDefault, out |-> TechnicalDefault,
                 done |-> FALSE]

\* _parse_technical_response is applied to the drawn response, for a price
\* and an ATR of the pipeline; `loop` is the dict as the line loop leaves it.
ApplyParse ==
    /\ call.fn = "_parse_technical_response"
    /\ ~call.done
    /\ \E price \in Prices, atr \in Atrs :
         call' = [call EXCEPT
                    !.loop = ParseTechnicalLines(call.response.lines, 1,
                                                 TechnicalDefault).r,
                    !.out = ParseTechnicalResponse(call.response, price, atr),
                    !.done = TRUE]
    /\ UNCHANGED <<streamVars, nl, bt>>

SpecParse == InitParse /\ [][ApplyParse]_vars

\* ------------------------------------- trade outcomes, src/backtest.py
\* The BacktestTrade run_backtest records for an oracle answer that is not
\* SKIP and has confidence >= MIN_CONFIDENCE: the oracle's TP and SL, or,
\* if either is 0, the entry price plus and minus the ATR.
RecordedTrade(direction, entry_idx, current_price, tp, sl, atr) ==
    LET substitute == tp = 0 \/ sl = 0
        long == direction = "LONG"
    IN  [entry_idx |-> entry_idx, entry_price |-> current_price,
         direction |-> direction,
         tp |-> IF ~substitute THEN tp
                ELSE IF long THEN current_price + atr ELSE current_price - atr,
         sl |-> IF ~substitute THEN sl
                ELSE IF long THEN current_price - atr ELSE current_price + atr,
         exit_idx |-> -1, exit_price |-> 0, result |-> "None",
         pnl_percent |-> Frac(0, 1), pnl_usd |-> Frac(0, 1)]

\* A trade closed at candle i at exit_price: for a LONG the percentage is
\* (exit - entry) / entry * 100, for any other direction
\* (entry - exit) / entry * 100.
ClosedTrade(trade, i, result, exit_price) ==
    [trade EXCEPT
       !.exit_idx = i, !.exit_price = exit_price, !.result = result,
       !.pnl_percent =
          IF trade.direction = "LONG"
          THEN Frac((exit_price - trade.entry_price) * 100, trade.entry_price)
          ELSE Frac((trade.entry_price - exit_price) * 100, trade.entry_price)]

RECURSIVE TradeExit(_, _, _)
\* `for i in range(trade.entry_idx + 1, len(candles))` from candle i on:
\* the TP test comes first in each candle, and the first hit breaks.
TradeExit(trade, candles, i) ==
    IF i >= Len(candles) THEN trade
    ELSE LET high == At(candles, i).high
             low == At(candles, i).low
         IN  IF trade.direction = "LONG"
             THEN IF high >= trade.tp THEN ClosedTrade(trade, i, "WIN", trade.tp)
                  ELSE IF low <= trade.sl THEN ClosedTrade(trade, i, "LOSS", trade.sl)
                  ELSE TradeExit(trade, candles, i + 1)
             ELSE IF low <= trade.tp THEN ClosedTrade(trade, i, "WIN", trade.tp)
                  ELSE IF high >= trade.sl THEN ClosedTrade(trade, i, "LOSS", trade.sl)
                  ELSE TradeExit(trade, candles, i + 1)

\* check_trade_outcome for an entry price above 0: a trade no candle closed
\* is OPEN; a closed one gets pnl_usd = position_size * (pnl_percent / 100)
\* * LEVERAGE, here in cents.
check_trade_outcome(trade, candles) ==
    LET t == TradeExit(trade, candles, trade.entry_idx + 1)
    IN  IF t.result = "None" THEN [t EXCEPT !.result = "OPEN"]
        ELSE LET position_size ==
                   calculate_position_size(ACCOUNT_BALANCE, MAX_RISK_PERCENT,
                                           t.entry_price, t.sl, LEVERAGE)
             IN  [t EXCEPT !.pnl_usd = Frac(position_size * t.pnl_percent.n * LEVERAGE,
                                            t.pnl_percent.d * 100)]

\* --------------------------------------- further functions on drawn arguments
(* One call of a function per behaviour.  The swing detectors are applied   *)
(* to every series of up to MaxBars bars at three levels, for a lookback of *)
(* 1 and of LOOKBACK, the same series serving as highs and as lows.  The    *)
(* volume ratio is computed for every window of up to 3 bars with volumes   *)
(* of 0, 10 and 30.  A trade is recorded at an entry price of 100 for a     *)
(* LONG or SHORT answer whose TP and SL are each absent (0), 98 or 102,     *)
(* with an ATR of 0 (the sentinel) or 2, at candle 0 or 1 of up to 3        *)
(* candles, each quiet or reaching 103, 97 or both.                         *)
InitFunctions ==
    /\ StreamIdle
    /\ nl = NoMatcherRun
    /\ bt = NoBacktest
    /\ \/ \E k \in 0..MaxBars, lookback \in {1, LOOKBACK} :
            \E series \in SeqsOfLen({1, 2, 3}, k) :
              call = [fn |-> "detect_swings", series |-> series,
                      lookback |-> lookback, highs |-> << >>, lows |-> << >>,
                      done |-> FALSE]
       \/ \E k \in 0..3 : \E volumes \in SeqsOfLen({0, 10, 30}, k) :
            call = [fn |-> "volume_ratio", volumes |-> volumes,
                    out |-> [raised |-> FALSE, value |-> Frac(0, 1)],
                    done |-> FALSE]
       \/ \E direction \in {"LONG", "SHORT"}, tp \in {0, 98, 102},
             sl \in {0, 98, 102}, atr \in {0, 2}, k \in 1..3 :
            \E entry_idx \in 0..(k - 1) :
              \E candles \in SeqsOfLen([high : {101, 103}, low : {99, 97}], k) :
                LET trade == RecordedTrade(direction, entry_idx, 100, tp, sl, atr)
                IN  call = [fn |-> "check_trade_outcome", tp |-> tp, sl |-> sl,
                            atr |-> atr, candles |-> candles, trade |-> trade,
                            out |-> trade, done |-> FALSE]

ApplyFunctions ==
    /\ ~call.done
    /\ \/ /\ call.fn = "detect_swings"
          /\ call' = [call EXCEPT
                        !.highs = detect_swing_highs(call.series, call.lookback),
                        !.lows = detect_swing_lows(call.series, call.lookback),
                        !.done = TRUE]
       \/ /\ call.fn = "volume_ratio"
          /\ call' = [call EXCEPT !.out = volume_ratio(call.volumes), !.done = TRUE]
       \/ /\ call.fn = "check_trade_outcome"
          /\ call' = [call EXCEPT
                        !.out = check_trade_outcome(call.trade, call.candles),
                        !.done = TRUE]
    /\ UNCHANGED <<streamVars, nl, bt>>

SpecFunctions == InitFunctions /\ [][ApplyFunctions]_vars

\* ------------------------------------------ the backtest batch, backtest.py
(* analyze_all_setups_async.  bt is the state of one run over setups 1..n:  *)
(*   st[i]      where the task of setup i stands: "new", "waiting" on the   *)
(*              semaphore, "woken" by a release, "inflight" (its oracle     *)
(*              request is with the executor) or "done" (it has returned);  *)
(*   value      the counter of the semaphore, waiters its FIFO queue;       *)
(*   calls[i]   the oracle requests submitted for setup i;                  *)
(*   direction  the direction field of each setup, "" as the dataclass      *)
(*              makes it;                                                   *)
(*   outcome[i] what the executor call of setup i does: the direction       *)
(*              analyze_technical answers (SKIP also for an API error it    *)
(*              catches itself) or "raise";                                 *)
(*   analyzed   the list the run returns;                                   *)
(*   overtaken  (observation) a task has completed while the task of an     *)
(*              earlier setup had not.                                      *)
(* A request counts as in flight from its submission until its task has     *)
(* taken the result, which covers the time the request is on the wire.      *)
MAX_CONCURRENT_REQUESTS == 10

\* A semaphore that admits every task.
SemaphoreLocked_Never(b) == FALSE

\* Semaphore.locked(): no slot is free.
SemaphoreLocked(b) == b.value = 0

\* The task of setup i holds a slot and hands its request to the executor.
Submit(b, i) ==
    [b EXCEPT !.st[i] = "inflight", !.value = @ - 1, !.calls[i] = @ + 1]

\* `async with semaphore:` reached by the task of setup i.
Acquire(b, i) ==
    IF SemaphoreLocked(b)
    THEN [b EXCEPT !.st[i] = "waiting", !.waiters = Append(@, i)]
    ELSE Submit(b, i)

RECURSIVE StartTasks(_, _)
\* The first step of every task, in the order gather() created them: the
\* event loop runs them back to back before it handles any completion.
StartTasks(b, i) ==
    IF i > b.n THEN b ELSE StartTasks(Acquire(b, i), i + 1)

\* Semaphore.release() on leaving `async with`: the longest waiter is woken.
Release(b) ==
    LET b1 == [b EXCEPT !.value = @ + 1]
    IN  IF b1.waiters = << >> THEN b1
        ELSE [b1 EXCEPT !.st[Head(b.waiters)] = "woken", !.waiters = Tail(@)]

\* The direction a task leaves in its setup: the oracle's, or ERROR from the
\* `except Exception` branch.
DirectionOf(outcome) == IF outcome = "raise" THEN "ERROR" ELSE outcome

\* What the executor call of setup i does under each pattern of oracle
\* behaviour: every call answers; the call of setup 2 raises; every call
\* raises.
OracleOutcome(pattern, i) ==
    CASE pattern = "all_raise" -> "raise"
      [] pattern = "one_raises" /\ i = 2 -> "raise"
      [] OTHER -> <<"LONG", "SHORT", "SKIP">>[(i % 3) + 1]

NewBacktest(n, pattern) ==
    [phase |-> "created", n |-> n,
     st |-> [i \in 1..n |-> "new"],
     value |-> MAX_CONCURRENT_REQUESTS,
     waiters |-> << >>,
     calls |-> [i \in 1..n |-> 0],
     direction |-> [i \in 1..n |-> ""],
     outcome |-> [i \in 1..n |-> OracleOutcome(pattern, i)],
     analyzed |-> << >>, overtaken |-> FALSE]

InitBacktest ==
    /\ StreamIdle
    /\ nl = NoMatcherRun
    /\ call = NoCall
    /\ \E n \in {1, MAX_CONCURRENT_REQUESTS, MaxSetups},
          pattern \in {"all_answer", "one_raises", "all_raise"} :
         bt = NewBacktest(n, pattern)

\* `await asyncio.gather(*tasks, ...)` starts the tasks.
GatherStart ==
    /\ bt.phase = "created"
    /\ bt' = [StartTasks(bt, 1) EXCEPT !.phase = "run"]
    /\ UNCHANGED <<streamVars, nl, call>>

\* The executor call of setup i returns or raises; its task fills the setup
\* in, leaves `async with` and returns the setup.
TaskCompletes(i) ==
    /\ bt.phase = "run"
    /\ bt.st[i] = "inflight"
    /\ bt' = Release([bt EXCEPT !.st[i] = "done",
                                !.direction[i] = DirectionOf(bt.outcome[i]),
                                !.overtaken =
                                    @ \/ \E j \in 1..(i - 1) : bt.st[j] # "done"])
    /\ UNCHANGED <<streamVars, nl, call>>

\* A woken task takes its slot.
TaskResumes(i) ==
    /\ bt.phase = "run"
    /\ bt.st[i] = "woken"
    /\ bt' = Submit(bt, i)
    /\ UNCHANGED <<streamVars, nl, call>>

\* A result list with the latest task first.
GatherResults_Reversed(b) == [i \in 1..b.n |-> b.n + 1 - i]

\* The list gather() returns: the result of each task at the position of
\* the task in `tasks`; each is a BacktestSetup, so the isinstance filter
\* keeps them all, in that order.
GatherResults(b) == [i \in 1..b.n |-> i]

\* gather() returns once every task has.
GatherReturns ==
    /\ bt.phase = "run"
    /\ \A i \in 1..bt.n : bt.st[i] = "done"
    /\ bt' = [bt EXCEPT !.phase = "done", !.analyzed = GatherResults(bt)]
    /\ UNCHANGED <<streamVars, nl, call>>

NextBacktest ==
    \/ GatherStart
    \/ \E i \in 1..bt.n : TaskCompletes(i)
    \/ \E i \in 1..bt.n : TaskResumes(i)
    \/ GatherReturns

\* The event loop runs every task that is ready, and every request handed
\* to the executor returns or raises (the client times a request out).
SpecBacktestLive ==
    InitBacktest /\ [][NextBacktest]_vars /\ WF_vars(NextBacktest)

\* =================================================================== claims
\* The counters as can_call_api sees them in cycle c after its day check.
CallsAtGate(c) ==
    IF UtcDay(c.time) # c.pre.last_reset_day THEN 0 ELSE c.pre.daily_calls
SearchesAtGate(c) ==
    IF UtcDay(c.time) # c.pre.last_reset_day THEN 0 ELSE c.pre.daily_x_searches
\* The technical oracle was invoked in cycle c / answered in the band.
TechCalled(c) == c.tech_calls > 0
InBorderlineBand(c) ==
    TechCalled(c) /\ c.result.confidence >= MIN_CONFIDENCE
                  /\ c.result.confidence < HIGH_CONFIDENCE
\* A logging step of cycle c raised.
LogRaised(c) == c.raised \in {"log_api_call", "log_trade_signal"}

\* C1: the technical oracle is invoked in a cycle only if, after the day
\* check, daily_calls < MAX_CALLS_PER_DAY and at least COOLDOWN_SECONDS
\* have passed since the last charged call; daily_calls never exceeds the
\* budget and successive technical oracle calls are >= COOLDOWN_SECONDS apart.
C1_RateLimitGate ==
    /\ daily_calls <= MAX_CALLS_PER_DAY
    /\ TechCalled(cyc) =>
         /\ cyc.gate = "pass"
         /\ CallsAtGate(cyc) < MAX_CALLS_PER_DAY
         /\ cyc.time - cyc.pre.last_api_call >= COOLDOWN_SECONDS
         /\ cyc.prev_tech_call # 0
              => cyc.time - cyc.prev_tech_call >= COOLDOWN_SECONDS

\* The oracle is called exactly one cooldown after the previous call, and
\* that call uses up the daily budget.
C1_Witness ==
    /\ TechCalled(cyc)
    /\ cyc.prev_tech_call # 0
    /\ cyc.time - cyc.prev_tech_call = COOLDOWN_SECONDS
    /\ daily_calls = MAX_CALLS_PER_DAY

C3_DefaultBracket ==
    /\ (TechCalled(cyc) /\ cyc.result.direction \in {"LONG", "SHORT"})
         => cyc.result.tp # 0 /\ cyc.result.sl # 0
    /\ \A i \in 1..Len(cyc.alerts) :
         cyc.alerts[i].direction \in {"LONG", "SHORT"}
           => cyc.alerts[i].tp # 0 /\ cyc.alerts[i].sl # 0

\* A field of response o is given by a line that parses.
FieldParses(o, label) ==
    \E i \in 1..Len(o.lines) :
      /\ o.lines[i].label = label
      /\ IF label = "DIRECTION"
         THEN o.lines[i].tok.k = "word"
              /\ Upper(o.lines[i].tok.v) \in {"LONG", "SHORT", "SKIP"}
         ELSE o.lines[i].tok.k = "num"

\* The oracle answered, and some field of the answer is missing or does
\* not parse.
Malformed(o) ==
    /\ o.kind \in {"text", "none"}
    /\ \E label \in {"DIRECTION", "CONFIDENCE", "TP", "SL"} : ~FieldParses(o, label)

\* C4: parsing a technical response never raises out of the pipeline, and a
\* cycle whose response has a field that fails to parse emits no alert.
C4_MalformedSkips ==
    (TechCalled(cyc) /\ Malformed(cyc.oracle))
      => cyc.alerts = << >> /\ cyc.raised = "none"

\* C5: a technical oracle call that raises gives SKIP, confidence 0 and the
\* error text as reason; a sentiment oracle call that raises gives
\* take_trade false, NEUTRAL and the error text as reason; either way the
\* cycle emits no alert, raises nothing and the loop goes on to wait for the
\* next candle update.
C5_OracleFailure ==
    /\ (TechCalled(cyc) /\ cyc.oracle.kind = "raise") =>
         /\ cyc.result.direction = "SKIP"
         /\ cyc.result.confidence = 0
         /\ cyc.result.reason = Reason("api_error", cyc.oracle.err)
         /\ cyc.alerts = << >> /\ cyc.x_calls = 0
         /\ cyc.raised = "none"
         /\ pc \in {"watch", "done"}
    /\ (cyc.x_calls > 0 /\ cyc.x_oracle.kind = "raise") =>
         /\ cyc.x_result.take_trade = FALSE
         /\ cyc.x_result.sentiment = "NEUTRAL"
         /\ cyc.x_result.reason = Reason("api_error", cyc.x_oracle.err)
         /\ cyc.alerts = << >>
         /\ cyc.raised = "none"
         /\ pc \in {"watch", "done"}

\* The sentiment oracle raised in a borderline cycle, and the loop waits for
\* the next update.
C5_Witness ==
    /\ cyc.x_calls > 0
    /\ cyc.x_oracle.kind = "raise"
    /\ cyc.outcome = "SKIP_REJECTED"
    /\ pc = "watch"

\* C6: the daily counters are zeroed only when the UTC calendar day has
\* changed since they were last zeroed, and a cycle that reaches the gate
\* in a new UTC calendar day zeroes them.
C6_DailyReset ==
    /\ cyc.reset => cyc.prev_reset_day # EpochDay(cyc.time)
    /\ cyc.gate # "none" => reset_epoch_day = EpochDay(cyc.time)

\* C7: a borderline cycle invokes the sentiment oracle only with
\* daily_x_searches < MAX_X_SEARCHES_PER_DAY; with the budget used up it
\* ends in SKIP, invokes no sentiment oracle and leaves daily_x_searches as
\* it was; daily_x_searches never exceeds the budget.
C7_SearchBudget ==
    /\ daily_x_searches <= MAX_X_SEARCHES_PER_DAY
    /\ cyc.x_calls > 0 => SearchesAtGate(cyc) < MAX_X_SEARCHES_PER_DAY
    /\ (InBorderlineBand(cyc) /\ SearchesAtGate(cyc) >= MAX_X_SEARCHES_PER_DAY)
         => /\ cyc.outcome = "SKIP_BUDGET"
            /\ cyc.x_calls = 0
            /\ cyc.alerts = << >>
            /\ daily_x_searches = SearchesAtGate(cyc)

\* A borderline cycle refused by a used-up search budget.
C7_Witness ==
    /\ InBorderlineBand(cyc)
    /\ cyc.outcome = "SKIP_BUDGET"
    /\ daily_x_searches = MAX_X_SEARCHES_PER_DAY

C9_StreamSurvives ==
    /\ pc = "done" => ~running
    /\ (cyc.raised # "none" /\ running) => pc \in {"sleep", "watch"}
    /\ pc = "sleep" => cyc.raised # "none"

\* A cycle that ran to an alert right after a cycle that raised.
C9_Witness ==
    /\ cyc.after_fault
    /\ cyc.outcome = "ALERT_HIGH"
    /\ running
\* The first position of all_layers whose distance_pct is the least.
FirstNearest(all_layers) ==
    CHOOSE i \in 1..Len(all_layers) :
      /\ \A j \in 1..Len(all_layers) :
           all_layers[i].distance_pct <= all_layers[j].distance_pct
      /\ \A j \in 1..(i - 1) :
           all_layers[j].distance_pct # all_layers[i].distance_pct

\* C10: find_nearest_layer returns none when both lists are empty or no
\* layer has distance_pct <= threshold; otherwise it returns the first layer,
\* scanning the resistance list and then the support list, whose
\* distance_pct is the least of all layers, and that distance is <= threshold.
C10_NearestLayer ==
    nl.done =>
      LET all_layers == nl.res \o nl.sup
          within == { i \in 1..Len(all_layers) :
                        all_layers[i].distance_pct <= nl.thr }
      IN  /\ within = {} => nl.out = NoLayer
          /\ within # {} =>
               /\ nl.out = all_layers[FirstNearest(all_layers)]
               /\ nl.out.distance_pct <= nl.thr

\* A resistance layer and a support layer tie at the least distance, which
\* is within the threshold, and the resistance layer is returned.
C10_Witness ==
    /\ nl.done
    /\ Len(nl.res) > 0 /\ Len(nl.sup) > 0
    /\ nl.out.layer_type = "resistance"
    /\ \E j \in 1..Len(nl.sup) : nl.sup[j].distance_pct = nl.out.distance_pct
    /\ \E i \in 1..Len(nl.res) : nl.res[i].distance_pct > nl.out.distance_pct

\* The positions of the clusters P a swing of price p is within the
\* threshold of, by relative distance to p.
Fits(P, p) ==
    { j \in 1..Len(P) :
        Abs(P[j].price.n - p * P[j].price.d) * 10000
          < CLUSTER_THRESHOLD * p * P[j].price.d }

\* C14: cluster_levels takes the swings in input order; swing k is merged
\* into the first cluster (of those built from the swings before it) whose
\* price is strictly within the threshold of it, and opens a new cluster at
\* the end iff there is none; a merge adds 1 to the touches of that cluster,
\* makes its price (old_price * old_touches + new_price) / (old_touches + 1)
\* and leaves every other cluster as it was.
C14_ClusterLevels ==
    (call.fn = "cluster_levels" /\ call.done) =>
      /\ call.out = cluster_levels(call.levels, CLUSTER_THRESHOLD)
      /\ \A k \in 1..Len(call.levels) :
           LET P == cluster_levels(SubSeq(call.levels, 1, k - 1), CLUSTER_THRESHOLD)
               Q == cluster_levels(SubSeq(call.levels, 1, k), CLUSTER_THRESHOLD)
               s == call.levels[k]
               fits == Fits(P, s.price)
           IN  IF fits = {}
               THEN Q = Append(P, [price |-> Frac(s.price, 1), touches |-> 1,
                                   indices |-> <<s.idx>>])
               ELSE LET m == CHOOSE j \in fits : \A i \in fits : j <= i
                    IN  /\ Len(Q) = Len(P)
                        /\ \A j \in 1..Len(P) : j # m => Q[j] = P[j]
                        /\ Q[m].touches = P[m].touches + 1
                        /\ Q[m].price.n * P[m].price.d * (P[m].touches + 1)
                             = (P[m].price.n * P[m].touches + s.price * P[m].price.d)
                               * Q[m].price.d
                        /\ Q[m].indices = Append(P[m].indices, s.idx)

\* A swing within the threshold of two clusters was merged into the first,
\* whose price is then no whole number of ticks.
C14_Witness ==
    /\ call.fn = "cluster_levels" /\ call.done
    /\ \E k \in 1..Len(call.levels) :
         Cardinality(Fits(cluster_levels(SubSeq(call.levels, 1, k - 1),
                                         CLUSTER_THRESHOLD),
                          call.levels[k].price)) >= 2
    /\ \E j \in 1..Len(call.out) : call.out[j].price.n % call.out[j].price.d # 0

\* The qualifying factors of arguments a, as the claim lists them.
TouchFactor(a) == a.cluster.touches >= 2
RecencyFactor(a) ==
    \E k \in 1..Len(a.cluster.indices) :
      a.total_bars - a.cluster.indices[k] <= RECENT_BARS
VolumeFactor(a) ==
    LET at == { k \in 1..Len(a.cluster.indices) :
                  a.cluster.indices[k] < Len(a.volumes) }
        touched == SumSeq([k \in 1..Len(a.cluster.indices) |->
                             IF k \in at THEN a.volumes[a.cluster.indices[k] + 1]
                             ELSE 0])
    IN  /\ a.volumes # << >>
        /\ at # {}
        /\ 10 * touched * Len(a.volumes) > 12 * SumSeq(a.volumes) * Cardinality(at)
Factors(a) ==
    (IF TouchFactor(a) THEN 1 ELSE 0) + (IF RecencyFactor(a) THEN 1 ELSE 0)
    + (IF VolumeFactor(a) THEN 1 ELSE 0)

\* C12: calculate_layer_strength returns an integer in 1..3; arguments with
\* no more qualifying factors (two touches or more, a touch within the last
\* 20 bars, mean touch volume above 1.2 times the window mean) never score
\* higher; one touch with no recent and no volume-qualifying index scores 1.
C12_LayerStrength ==
    (call.fn = "calculate_layer_strength" /\ call.done) =>
      /\ call.out \in 1..3
      /\ \A a \in StrengthArgs :
           Factors(a) <= Factors(call.args)
             => calculate_layer_strength(a.cluster, a.total_bars, a.volumes)
                  <= call.out
      /\ (~TouchFactor(call.args) /\ ~RecencyFactor(call.args)
            /\ ~VolumeFactor(call.args)) => call.out = 1

\* A single old touch whose volume is exactly 1.2 times the mean scores 1.
C12_Witness ==
    /\ call.fn = "calculate_layer_strength" /\ call.done
    /\ call.args.cluster.touches = 1
    /\ Factors(call.args) = 0
    /\ call.args.volumes # << >>
    /\ call.args.volumes[call.args.cluster.indices[1] + 1] = 12
    /\ call.out = 1

\* The current price of the window find_layers was applied to.
CurrentPrice == call.closes[Len(call.closes)]

\* Layer l lies |price - current price| / current price * 100 percent away,
\* and that is not negative.
DistanceIsExact(l) ==
    /\ l.distance_pct.n >= 0 /\ l.distance_pct.d > 0
    /\ l.distance_pct.n * (CurrentPrice * l.price.d)
         = Abs(l.price.n - CurrentPrice * l.price.d) * 100 * l.distance_pct.d

\* C11: every resistance layer find_layers returns has a price strictly
\* above the last close and every support layer a price strictly below it;
\* every returned layer has distance_pct >= 0, equal to
\* |layer price - current price| / current price * 100.
C11_LayerSides ==
    (call.fn = "find_layers" /\ call.done) =>
      /\ \A i \in 1..Len(call.out[1]) :
           /\ call.out[1][i].layer_type = "resistance"
           /\ call.out[1][i].price.n > CurrentPrice * call.out[1][i].price.d
           /\ DistanceIsExact(call.out[1][i])
      /\ \A i \in 1..Len(call.out[2]) :
           /\ call.out[2][i].layer_type = "support"
           /\ call.out[2][i].price.n < CurrentPrice * call.out[2][i].price.d
           /\ DistanceIsExact(call.out[2][i])

\* Both sides are returned for a window in which one cluster of swing highs
\* lies at or below the current price and is left out.
C11_Witness ==
    /\ call.fn = "find_layers" /\ call.done
    /\ Len(call.out[1]) >= 1 /\ Len(call.out[2]) >= 1
    /\ \E c \in { cl[j] : j \in 1..Len(cluster_levels(detect_swing_highs(call.highs, LOOKBACK), CLUSTER_THRESHOLD)),
                  cl \in {cluster_levels(detect_swing_highs(call.highs, LOOKBACK), CLUSTER_THRESHOLD)} } :
         c.price.n <= CurrentPrice * c.price.d

\* Layer a ranks strictly before layer b: more touches, or as many and nearer.
RanksBefore(a, b) ==
    \/ a.touches > b.touches
    \/ /\ a.touches = b.touches
       /\ a.distance_pct.n * b.distance_pct.d < b.distance_pct.n * a.distance_pct.d

\* `side` is the first max_layers / 2 of the qualifying layers `all` in the
\* order of descending touches, then ascending distance; all of them if
\* there are fewer.
IsRankedPrefix(side, all) ==
    /\ Len(side) = IF Len(all) < MAX_LAYERS \div 2 THEN Len(all) ELSE MAX_LAYERS \div 2
    /\ \A i \in 1..Len(side) : \E j \in 1..Len(all) : side[i] = all[j]
    /\ \A i \in 1..Len(side) : \A j \in 1..Len(side) :
         i < j => ~RanksBefore(side[j], side[i])
    /\ \A j \in 1..Len(all) :
         \/ \E i \in 1..Len(side) : side[i] = all[j]
         \/ \A i \in 1..Len(side) : ~RanksBefore(all[j], side[i])

IsRounded(x, num, den) ==
    /\ 2 * Abs(x * den - num) <= den
    /\ 2 * Abs(x * den - num) = den => x % 2 = 0

\* C15: calculate_position_size returns 0.0 when entry equals stop_loss and
\* otherwise (balance * risk_pct / 100) / (|entry - stop_loss| / entry)
\* rounded to 2 decimals (1000, 0.2, 1.0, 0.99 gives 200.00), the same for
\* every leverage, and never divides by zero or raises.
C15_PositionSizer ==
    (call.fn = "calculate_position_size" /\ call.done) =>
      LET a == call.args
      IN  /\ ~call.raised
          /\ a.entry = a.stop_loss => call.out = 0
          /\ a.entry # a.stop_loss =>
               IsRounded(call.out, a.account_balance * a.risk_percent * a.entry,
                         10 * Abs(a.entry - a.stop_loss))
          /\ (a.account_balance = 1000 /\ a.risk_percent = 2 /\ a.entry = 100
                /\ a.stop_loss = 99) => call.out = 20000
          /\ \A lev \in {1, 10, 20} :
               ~PositionSizeRaises(a.entry, a.stop_loss)
                 => calculate_position_size(a.account_balance, a.risk_percent,
                                            a.entry, a.stop_loss, lev) = call.out

\* What follows label in response o, Absent if o has no such line.
TokenOf(o, label) ==
    IF \E i \in 1..Len(o.lines) : o.lines[i].label = label
    THEN o.lines[CHOOSE i \in 1..Len(o.lines) : o.lines[i].label = label].tok
    ELSE Absent

\* The value a numeric field must get: the number after the label, 0 if the
\* line is missing or malformed.
ExpectedNumber(o, label) ==
    IF TokenOf(o, label).k = "num" THEN TokenOf(o, label).v ELSE 0

\* C16: the TradeIntent parsed from any technical response has a direction
\* in {LONG, SHORT, SKIP} (upper-cased) and an integer confidence in 0..100;
\* a missing or malformed DIRECTION gives SKIP, a missing or malformed
\* CONFIDENCE, TP or SL gives 0 for that field, and a well-formed one gives
\* the number after the label (TP and SL as the line loop leaves them,
\* before a default bracket is substituted).
C16_TradeIntent ==
    (call.fn = "_parse_technical_response" /\ call.done) =>
      LET o == call.response
          dir == TokenOf(o, "DIRECTION")
      IN  /\ call.out.direction \in {"LONG", "SHORT", "SKIP"}
          /\ call.out.confidence \in 0..100
          /\ call.out.direction =
               IF dir.k = "word" /\ Upper(dir.v) \in {"LONG", "SHORT", "SKIP"}
               THEN Upper(dir.v) ELSE "SKIP"
          /\ call.out.confidence = ExpectedNumber(o, "CONFIDENCE")
          /\ call.loop.tp = ExpectedNumber(o, "TP")
          /\ call.loop.sl = ExpectedNumber(o, "SL")

\* The window of cycle c is too short for calculate_atr / calculate_adx,
\* which answer the 0.0 sentinel.
AtrIsSentinel(c) == c.window < INDICATOR_PERIOD + 1
AdxIsSentinel(c) == c.window < 2 * INDICATOR_PERIOD

\* C17: in a cycle whose window passes the readiness gate, no market_status
\* is derived from the 0.0 an indicator answers for a too short window, and
\* the technical oracle is handed no such 0.0 as a reading.
C17_SentinelNotUsed ==
    cyc.window >= MIN_CANDLES =>
      /\ AdxIsSentinel(cyc) => cyc.market_status = "NONE"
      /\ TechCalled(cyc) => ~AtrIsSentinel(cyc) /\ ~AdxIsSentinel(cyc)

\* C18: the stream loop is suspended for as long as a cycle waits on its
\* notification, no cycle starts while the one before it is still in
\* progress, and so the rate-limit state is that the latest cycle left.
C18_OneCycleAtATime ==
    /\ ~cyc.overlapped
    /\ cyc.notify = "pending" <=> pc = "notify"
    /\ pc = "notify" => Len(cyc.alerts) = 1

\* A cycle waits on its notification while the stream has more updates to
\* deliver and has not been stopped.
C18_Witness ==
    /\ pc = "notify"
    /\ cyc.notify = "pending"
    /\ running
    /\ cycles < MaxCycles
    /\ TechCalled(cyc)

\* The lines that state why a cycle was refused or skipped.
RefusalLines ==
    {"rate_limited", "skip_low_confidence", "x_limit", "x_rejected"}

\* C20: a cycle that ends in a rate-limit refusal, a low-confidence SKIP, a
\* used-up search budget or a sentiment rejection has written a log line
\* that states the reason, as its last line.
C20_RefusalsLogged ==
    cyc.outcome \in {"REFUSED", "SKIP_LOW", "SKIP_BUDGET", "SKIP_REJECTED"} =>
      /\ cyc.log # << >>
      /\ cyc.log[Len(cyc.log)] \in RefusalLines

\* The oracle requests in flight.
InFlight(b) == Cardinality({i \in 1..b.n : b.st[i] = "inflight"})

\* The run is over with every setup analysed exactly once.
BacktestDone ==
    /\ bt.phase = "done"
    /\ bt.analyzed = [i \in 1..bt.n |-> i]
    /\ \A i \in 1..bt.n :
         /\ bt.calls[i] = 1
         /\ bt.direction[i] = DirectionOf(bt.outcome[i])

\* C19: while the batch runs, at most MAX_CONCURRENT_REQUESTS oracle
\* requests are in flight and no setup is submitted twice; the run comes to
\* its end, where every setup has been analysed exactly once and carries
\* LONG, SHORT, SKIP or ERROR: what its own oracle call did, whatever the
\* calls of the other setups did.
C19_BoundedConcurrency ==
    /\ [](/\ InFlight(bt) <= MAX_CONCURRENT_REQUESTS
          /\ \A i \in 1..bt.n :
               /\ bt.calls[i] <= 1
               /\ bt.st[i] = "done" =>
                    /\ bt.direction[i] \in {"LONG", "SHORT", "SKIP", "ERROR"}
                    /\ bt.direction[i] = DirectionOf(bt.outcome[i]))
    /\ <>BacktestDone

\* One oracle call has failed, the setup that waited longest has taken the
\* slot it left, the semaphore is full again and a setup still waits.
C19_Witness ==
    /\ bt.phase = "run"
    /\ InFlight(bt) = MAX_CONCURRENT_REQUESTS
    /\ bt.waiters # << >>
    /\ \E i \in 1..bt.n : bt.direction[i] = "ERROR"
    /\ \E i \in 1..bt.n : i > MAX_CONCURRENT_REQUESTS /\ bt.st[i] = "inflight"

\* C21: a cycle that passes the rate-limit gate stamps last_api_call and
\* adds exactly 1 to daily_calls; the technical oracle is invoked in the
\* charged state, and the charge is still there after the cycle, whatever
\* the oracle did.
C21_ChargeBeforeDispatch ==
    cyc.gate = "pass" =>
      /\ last_api_call = cyc.time
      /\ daily_calls = CallsAtGate(cyc) + 1
      /\ TechCalled(cyc) =>
           /\ cyc.tech_calls = 1
           /\ cyc.dispatch.last_api_call = cyc.time
           /\ cyc.dispatch.daily_calls = CallsAtGate(cyc) + 1

\* The oracle call of a charged cycle has failed and the cycle has ended
\* in a SKIP.
C21_Witness ==
    /\ cyc.gate = "pass"
    /\ TechCalled(cyc)
    /\ cyc.oracle.kind = "raise"
    /\ cyc.result.direction = "SKIP"
    /\ cyc.outcome = "SKIP_LOW"
    /\ daily_calls = cyc.pre.daily_calls + 1

\* Cycle c invoked no oracle and emitted no alert.
Quiet(c) == c.tech_calls = 0 /\ c.x_calls = 0 /\ c.alerts = << >>

\* C22: a cycle on a window shorter than MIN_CANDLES, or with no layer
\* within the threshold, invokes no oracle, emits no alert and leaves the
\* four rate-limit fields as it found them; a cycle the rate-limit gate
\* refuses invokes no oracle, emits no alert and leaves last_api_call and
\* both counters without an increment (the day check may have zeroed them).
C22_NoOpFrame ==
    /\ (cyc.outcome # "NONE"
          /\ (cyc.window < MIN_CANDLES \/ cyc.outcome = "NOOP_NO_LAYER")) =>
         /\ Quiet(cyc)
         /\ RateLimitState = cyc.pre
         /\ pc \in {"watch", "done", "sleep"}
    /\ cyc.window \in 1..(MIN_CANDLES - 1) => cyc.outcome = "NOOP_NOT_READY"
    /\ cyc.gate = "refuse" =>
         /\ cyc.outcome = "REFUSED"
         /\ Quiet(cyc)
         /\ last_api_call = cyc.pre.last_api_call
         /\ daily_calls = CallsAtGate(cyc)
         /\ daily_x_searches = SearchesAtGate(cyc)
         /\ daily_calls <= cyc.pre.daily_calls
         /\ daily_x_searches <= cyc.pre.daily_x_searches

\* A short window has been dropped by a bot that has called its oracle
\* before and could call it again.
C22_Witness ==
    /\ cyc.outcome = "NOOP_NOT_READY"
    /\ cyc.window = MIN_CANDLES - 1
    /\ last_tech_call # 0
    /\ cyc.time - last_api_call >= COOLDOWN_SECONDS
    /\ daily_calls < MAX_CALLS_PER_DAY

\* C23: every alert of a cycle carries LONG or SHORT, and a technical result
\* with direction SKIP is followed by no alert and no sentiment oracle call,
\* whatever its confidence.
C23_AlertsHaveDirection ==
    /\ \A i \in 1..Len(cyc.alerts) : cyc.alerts[i].direction \in {"LONG", "SHORT"}
    /\ (TechCalled(cyc) /\ cyc.result.direction = "SKIP") =>
         /\ cyc.alerts = << >>
         /\ cyc.x_calls = 0

\* Every cluster of the window on its side of the current price, as a Layer:
\* what find_layers has before it sorts and truncates.
QualifyingLayers ==
    ResistanceLayers(cluster_levels(detect_swing_highs(call.highs, LOOKBACK),
                                    CLUSTER_THRESHOLD),
                     CurrentPrice, Len(call.closes), call.volumes)
    \o SupportLayers(cluster_levels(detect_swing_lows(call.lows, LOOKBACK),
                                    CLUSTER_THRESHOLD),
                     CurrentPrice, Len(call.closes), call.volumes)

\* Layer l is within LAYER_THRESHOLD_PCT (hundredths of a percent).
WithinMatcherThreshold(l) ==
    l.distance_pct.n * 100 <= LAYER_THRESHOLD_PCT * l.distance_pct.d

\* C24: if a cluster strictly on its side of the current price lies within
\* the matcher's threshold, find_nearest_layer on the lists find_layers
\* returned answers a layer, and it is one of the least distance among all
\* such clusters.
C24_TruncationKeepsNearest ==
    (call.fn = "find_layers" /\ call.done /\ Len(call.highs) >= MIN_LAYER_BARS) =>
      LET all == QualifyingLayers
          near == { i \in 1..Len(all) : WithinMatcherThreshold(all[i]) }
      IN  near # {} =>
            /\ call.near.layer_type # "none"
            /\ \E i \in near :
                 /\ all[i].price = call.near.price
                 /\ all[i].layer_type = call.near.layer_type
                 /\ \A j \in near :
                      ~FracLess(all[j].distance_pct, all[i].distance_pct)

\* Index i (0-based) of series s is a swing high / low for radius r by the
\* strict rule.
StrictHigh(s, i, r) ==
    /\ r <= i /\ i < Len(s) - r
    /\ \A j \in 1..r : s[i + 1] > s[i + 1 - j] /\ s[i + 1] > s[i + 1 + j]
StrictLow(s, i, r) ==
    /\ r <= i /\ i < Len(s) - r
    /\ \A j \in 1..r : s[i + 1] < s[i + 1 - j] /\ s[i + 1] < s[i + 1 + j]

\* `out` lists, in increasing order of index and each with its price, the
\* indices of s that `rule` holds for.
ReportsExactly(out, s, rule(_)) ==
    /\ \A i \in 0..(Len(s) - 1) : rule(i) <=> \E k \in 1..Len(out) : out[k].idx = i
    /\ \A k \in 1..Len(out) :
         /\ out[k].idx \in 0..(Len(s) - 1)
         /\ out[k].price = s[out[k].idx + 1]
    /\ \A k \in 1..(Len(out) - 1) : out[k].idx < out[k + 1].idx

\* C25: detect_swing_highs with radius r reports index i iff r <= i < len - r
\* and highs[i] is strictly above highs[i - j] and highs[i + j] for every j
\* in 1..r; detect_swing_lows the same with strictly below; the swings come
\* in increasing order of index, and none is among the first or last r bars.
C25_SwingExtraction ==
    (call.fn = "detect_swings" /\ call.done) =>
      /\ ReportsExactly(call.highs, call.series,
                        LAMBDA i : StrictHigh(call.series, i, call.lookback))
      /\ ReportsExactly(call.lows, call.series,
                        LAMBDA i : StrictLow(call.series, i, call.lookback))
      /\ \A k \in 1..Len(call.highs) :
           /\ call.highs[k].idx >= call.lookback
           /\ call.highs[k].idx < Len(call.series) - call.lookback
      /\ \A k \in 1..Len(call.lows) :
           /\ call.lows[k].idx >= call.lookback
           /\ call.lows[k].idx < Len(call.series) - call.lookback

\* With the default radius a swing high and a swing low are reported, and a
\* bar that is level with a neighbour and above the others is not.
C25_Witness ==
    /\ call.fn = "detect_swings" /\ call.done
    /\ call.lookback = LOOKBACK
    /\ call.highs # << >>
    /\ call.lows # << >>
    /\ \E i \in LOOKBACK..(Len(call.series) - LOOKBACK - 1) :
         /\ \A j \in 1..LOOKBACK : /\ call.series[i + 1] >= call.series[i + 1 - j]
                                   /\ call.series[i + 1] >= call.series[i + 1 + j]
         /\ \E j \in 1..LOOKBACK : call.series[i + 1] = call.series[i + 1 + j]
         /\ \A k \in 1..Len(call.highs) : call.highs[k].idx # i

\* C26: the volume ratio of a window is the volume of its latest bar
\* divided by the mean volume of the window, is 1 for the empty window, and
\* its computation does not raise for any window of non-negative volumes.
C26_VolumeRatio ==
    (call.fn = "volume_ratio" /\ call.done) =>
      /\ ~call.out.raised
      /\ call.volumes = << >> => FracEq(call.out.value, Frac(1, 1))
      /\ call.volumes # << >> =>
           call.out.value.n * SumSeq(call.volumes)
             = call.volumes[Len(call.volumes)] * Len(call.volumes) * call.out.value.d

HoldersOf(out, idx) ==
    { <<j, p>> \in (1..Len(out)) \X (1..MaxSwings + 1) :
        p <= Len(out[j].indices) /\ out[j].indices[p] = idx }

\* The prices of the swings of `levels` whose indices are listed.
ContributingPrices(levels, indices) ==
    [p \in 1..Len(indices) |->
       levels[CHOOSE k \in 1..Len(levels) : levels[k].idx = indices[p]].price]

\* C28: after cluster_levels, every input swing index is in exactly one
\* cluster, each cluster's touches is the number of its indices, the
\* touches add up to the number of swings, and each cluster's price is the
\* arithmetic mean of the prices of its swings.
C28_ClusterBookkeeping ==
    (call.fn = "cluster_levels" /\ call.done) =>
      /\ \A k \in 1..Len(call.levels) :
           Cardinality(HoldersOf(call.out, call.levels[k].idx)) = 1
      /\ \A j \in 1..Len(call.out) :
           /\ call.out[j].touches = Len(call.out[j].indices)
           /\ \A p \in 1..Len(call.out[j].indices) :
                \E k \in 1..Len(call.levels) :
                  call.levels[k].idx = call.out[j].indices[p]
           /\ call.out[j].price.n * call.out[j].touches
                = call.out[j].price.d
                  * SumSeq(ContributingPrices(call.levels, call.out[j].indices))
      /\ SumSeq([j \in 1..Len(call.out) |-> call.out[j].touches])
           = Len(call.levels)

\* Two clusters were returned, one of them merged from three swings of
\* three different prices.
C28_Witness ==
    /\ call.fn = "cluster_levels" /\ call.done
    /\ Len(call.out) >= 2
    /\ \E j \in 1..Len(call.out) :
         /\ call.out[j].touches >= 3
         /\ Cardinality({ ContributingPrices(call.levels, call.out[j].indices)[p] :
                            p \in 1..Len(call.out[j].indices) }) >= 3

\* abs(a - b) / b * 100 < CLUSTER_THRESHOLD for two cluster prices, the
\* test of cluster_levels with a cluster price in place of the swing price.
PricesWithinThreshold(a, b) ==
    Abs(a.n * b.d - b.n * a.d) * 10000 < CLUSTER_THRESHOLD * b.n * a.d

\* C29: no two distinct clusters returned by cluster_levels have prices
\* within the clustering threshold of each other, the distance being taken
\* relative to the one price and relative to the other.
C29_ClusterSeparation ==
    (call.fn = "cluster_levels" /\ call.done) =>
      \A i \in 1..Len(call.out) : \A j \in 1..Len(call.out) :
        i # j => ~(/\ PricesWithinThreshold(call.out[i].price, call.out[j].price)
                   /\ PricesWithinThreshold(call.out[j].price, call.out[i].price))

\* C30: check_trade_outcome leaves a recorded trade with exactly one of the
\* results WIN, LOSS and OPEN (OPEN exactly when no candle closed it); a
\* WIN has pnl_percent >= 0 and a LOSS has pnl_percent <= 0.
C30_TradeOutcome ==
    (call.fn = "check_trade_outcome" /\ call.done) =>
      /\ call.out.result \in {"WIN", "LOSS", "OPEN"}
      /\ call.out.result = "OPEN" <=> call.out.exit_idx = -1
      /\ call.out.result = "WIN" => call.out.pnl_percent.n >= 0
      /\ call.out.result = "LOSS" => call.out.pnl_percent.n <= 0

====
